---- MODULE Spec2Model ----
(***************************************************************************)
(* Resilience layer of amazon-paapi-mcp: the token-bucket RateLimiter      *)
(* (core/rate_limiter.py) and the CircuitBreaker (core/circuit_breaker.py) *)
(* that gate every outbound PA API call, the PAAPIClient methods that pass *)
(* through them (core/paapi_client.py) and the two-tier CacheManager       *)
(* (core/cache_manager.py).                                                *)
(*                                                                         *)
(* Numbers.  tokens and max_per_second are floats in the code; here they   *)
(* are integers counting tenths of a token, so OneToken = 10 is the code's *)
(* 1.0 and max_per_second = 9 is the shipped 0.9.  In the limiter          *)
(* specifications the clock `now` counts ticks of 1/TicksPerSecond second, *)
(* the tick being chosen so that the product time_passed * max_per_second  *)
(* is a whole number of tenths.  The 24 hours of the daily window are      *)
(* scaled down to SecondsPerDay seconds.  In the breaker specification     *)
(* `now` counts whole seconds.  In the cache specification `now` counts    *)
(* the unit in which the ttl values are given.                             *)
(*                                                                         *)
(* Cache.  A composite key is the sequence of the namespace's characters,  *)
(* a colon and the key's digest.  The local tier is cachetools.TTLCache:   *)
(* an entry is visible until its expiry time, an assignment first drops    *)
(* the expired entries and then, when the cache is full, the oldest one.   *)
(* Values are named by what they are ("tuple1" is the tuple (1,), "list1"  *)
(* the list [1]); the server holds their JSON text.                        *)
(***************************************************************************)
EXTENDS Integers, Sequences, FiniteSets, TLC

VARIABLES
    now,                \* datetime.now()
    \* ---- RateLimiter fields
    max_per_second,     \* self.max_per_second (tenths of a token per second)
    max_per_day,        \* self.max_per_day
    tokens,             \* self.tokens (tenths of a token)
    last_refill,        \* self.last_refill
    daily_requests,     \* self.daily_requests
    daily_reset,        \* self.daily_reset
    lock,               \* self.lock: 0 when free, else the task holding it
    \* ---- observation of the sequential limiter
    called,             \* acquire() has been called at least once
    result,             \* return value of the last acquire()
    grants,             \* times of the acquire() calls that returned True
    paced,              \* all calls so far were spaced exactly 1/N s apart
    pre,                \* limiter fields as they were when the last call began
    \* ---- tasks calling acquire() concurrently
    pc,                 \* position of each task inside acquire()
    tnow,               \* each task's local `now`
    tret,               \* each task's return value
    snap,               \* limiter fields when the task got the lock (cleared on return)
    \* ---- CircuitBreaker fields
    failure_threshold,  \* self.failure_threshold
    timeout,            \* self.timeout (seconds)
    state,              \* self.state
    failure_count,      \* self.failure_count
    last_failure_time,  \* self.last_failure_time
    \* ---- observation of the breaker
    op,                 \* the last breaker operation called
    allowed,            \* return value of the last allow_request()
    prev,               \* breaker fields as they were when the last operation began
    failures_reported   \* record_failure() calls since the breaker last was Closed with count 0

VARIABLES
    \* ---- values returned by the read-only snapshots
    stats,              \* return value of the last get_stats()
    view,               \* return value of the last get_state()
    \* ---- observation of a scenario of acquire() calls
    ncalls,             \* number of acquire() calls made
    rapid,              \* no time has passed between the calls so far
    spaced              \* the calls so far were at least one second apart

VARIABLES
    \* ---- CacheManager fields and the two tiers
    redis_client,       \* self.redis_client is not None
    redis_up,           \* the Redis server answers (environment)
    cache_ttl_search,   \* settings.cache_ttl_search, the local tier's ttl
    memory_cache,       \* self.memory_cache: live and stale entries, oldest first
    redis_store,        \* what the Redis server holds for each composite key
    \* ---- observation of the cache
    toggled,            \* the Redis server has gone down or come back since start
    kstat,              \* per composite key: "unset", "set", "deleted" (after a
                        \* set) or "deleted_unset" (deleted, never set)
    cop,                \* the last cache operation (or environment step)
    nops                \* number of cache operations and environment steps

VARIABLES
    \* ---- PAAPIClient: requests running search_items / get_items
    mock_mode,          \* settings.mock_mode
    rpc,                \* position of each request inside the method
    rlog,               \* what each request has done so far, in order
    running,            \* the request the event loop is running, 0 if none
    nreq,               \* requests started so far
    overlapped          \* two requests have awaited the outbound call at once

VARIABLES
    \* ---- a get() suspended at `await self.redis_client.get(cache_key)`
    pending,            \* the suspended get and the server's reply to it
    \* ---- observation of the values written
    written,            \* per composite key: the value of the last set(), if any
    stamped             \* per composite key: the time and the ttl of the last set()

VARIABLES
    \* ---- observation of the admissions
    admitted_in         \* per request: the breaker state its allow_request() found

VARIABLES
    \* ---- a call of a function decorated with @cached
    wcall,              \* the call inside wrapper(): its function and position
    wlast,              \* how the last call of wrapper() went and ended
    nwraps              \* calls of wrapper() made so far

limiterVars == <<max_per_second, max_per_day, tokens, last_refill,
                 daily_requests, daily_reset, lock>>
seqVars     == <<called, result, grants, paced, pre>>
taskVars    == <<pc, tnow, tret, snap>>
breakerVars == <<failure_threshold, timeout, state, failure_count,
                 last_failure_time>>
cbObsVars   == <<op, allowed, prev, failures_reported>>
viewVars    == <<stats, view>>
scenVars    == <<ncalls, rapid, spaced>>
cacheVars   == <<redis_client, redis_up, cache_ttl_search, memory_cache,
                 redis_store, toggled, kstat, cop, nops>>
clientVars  == <<mock_mode, rpc, rlog, running, nreq, overlapped>>
awaitVars   == <<pending, written, stamped>>
probeVars   == <<admitted_in>>
wrapVars    == <<wcall, wlast, nwraps>>
\* the variables the limiter and breaker operations never write
extVars     == <<viewVars, scenVars, cacheVars, clientVars, awaitVars,
                 probeVars, wrapVars>>
\* what the operations of one group leave alone among the other groups
otherThanViews  == <<scenVars, cacheVars, clientVars, awaitVars, probeVars,
                     wrapVars>>
otherThanScen   == <<viewVars, cacheVars, clientVars, awaitVars, probeVars,
                     wrapVars>>
otherThanCache  == <<viewVars, scenVars, clientVars, awaitVars, probeVars,
                     wrapVars>>
otherThanClient == <<viewVars, scenVars, cacheVars, awaitVars, probeVars,
                     wrapVars>>
otherThanAwait  == <<viewVars, scenVars, clientVars, probeVars, wrapVars>>
otherThanProbe  == <<viewVars, scenVars, cacheVars, awaitVars, wrapVars>>
otherThanWrap   == <<viewVars, scenVars, awaitVars, probeVars>>
vars == <<now, limiterVars, seqVars, taskVars, breakerVars, cbObsVars,
          extVars>>

----------------------------------------------------------------------------
(* Bounds *)

SecondsPerDay == 4      \* length of the daily window, scaled down from 86400 s
MaxSeconds    == 7      \* the limiter's clock stops after this many seconds
NumTasks      == 2      \* concurrent callers of acquire()
MaxTaskSeconds == 4     \* clock bound of the concurrent specification
MaxFailures   == 5      \* cap on failure_count
MaxClock      == 8      \* the breaker's clock stops here (seconds)
MaxViewTicks  == 2      \* clock bound of the snapshot specification
MaxCalls      == 5      \* acquire() calls made in a scenario
MaxCacheOps   == 4      \* cache operations and environment steps in a run
MaxCacheTicks == 3      \* the cache's clock stops here
maxsize       == 1      \* capacity of the local tier, scaled down from 1000
NumRequests   == 2      \* requests in flight at the same time
MaxRequests   == 3      \* requests started in a run
MaxClientTicks == 2     \* clock bound of the client specification
MaxClientCacheOps == 1  \* cache operations made beside the requests
MaxOutageOps  == 5      \* cache operations and outages on the single key
MaxOutageTicks == 5     \* the clock of the same runs: past ttl + local ttl
MaxWrapperCalls == 3    \* calls of a decorated function

Rates      == {9, 10, 15}   \* max_per_second: 0.9 (shipped), 1.0, 1.5
DayLimits  == {2, 3}        \* max_per_day
Thresholds == {1, 2, 3}     \* failure_threshold
Timeouts   == {2, 3}        \* timeout
TaskRates     == {10}       \* max_per_second of the concurrent specification
TaskDayLimits == {2}        \* max_per_day of the concurrent specification
Keys       == {"k1"}        \* cache keys
Namespaces == {<<"a">>, <<"a", ":", "b">>}  \* namespaces "a" and "a:b"
Values     == {"s1", "tuple1"}  \* values to cache: the string 's1', the tuple (1,)
ProbeRates == {30}           \* max_per_second 3.0: a bucket of three tokens
ProbeDayLimits == {3}        \* max_per_day for the same limiter
OutageValues == {"s1", "list1"}  \* values that JSON gives back unchanged
LocalTTLs  == {2}           \* settings.cache_ttl_search
SetTTLs    == {0, 1, 3}     \* the ttl argument of set(); 0 stands for None

----------------------------------------------------------------------------
(* RateLimiter *)

OneToken == 10          \* the literal 1.0, in tenths of a token

Min(a, b) == IF a <= b THEN a ELSE b

\* ticks in one second: one tick refills half a token when max_per_second is
\* a multiple of 0.5, and a tenth of a token otherwise
TicksPerSecond ==
    IF max_per_second % 5 = 0 THEN max_per_second \div 5 ELSE max_per_second

\* timedelta(days=1), in ticks
Day == SecondsPerDay * TicksPerSecond

\* the refill without the cap at max_per_second
RefillUncapped(tok, last, t) ==
    tok + ((t - last) * max_per_second) \div TicksPerSecond

\* lines 43-47: tokens after the refill for the time passed since last_refill
Refill(tok, last, t) ==
    Min(max_per_second,
        tok + ((t - last) * max_per_second) \div TicksPerSecond)

\* line 51: the daily window has ended
ResetDue(t, dreset) == t >= dreset

\* the daily check with > for >=
DailyLimitReachedStrict(dr) == dr > max_per_day

\* line 57: daily budget exhausted
DailyLimitReached(dr) == dr >= max_per_day

\* the token check with <= for <
TokenShortageInclusive(tok) == tok <= OneToken

\* line 62: short-window budget exhausted
TokenShortage(tok) == tok < OneToken

\* acquire() taking the token before the daily check, so that a call rejected
\* by the daily cap has spent a token
AcquireOutcomeConsumeFirst(f, t) ==
    LET tok1 == Refill(f.tokens, f.last_refill, t)
        due  == ResetDue(t, f.daily_reset)
        dr1  == IF due THEN 0 ELSE f.daily_requests
        rs1  == IF due THEN t + Day ELSE f.daily_reset
        ok   == ~DailyLimitReached(dr1) /\ ~TokenShortage(tok1)
    IN  [tokens         |-> IF TokenShortage(tok1) THEN tok1
                                                   ELSE tok1 - OneToken,
         last_refill    |-> t,
         daily_requests |-> IF ok THEN dr1 + 1 ELSE dr1,
         daily_reset    |-> rs1,
         ret            |-> ok]

\* acquire() making the daily check on the counter it found, before the reset
AcquireOutcomeCheckBeforeReset(f, t) ==
    LET tok1 == Refill(f.tokens, f.last_refill, t)
        due  == ResetDue(t, f.daily_reset)
        dr1  == IF due THEN 0 ELSE f.daily_requests
        rs1  == IF due THEN t + Day ELSE f.daily_reset
        ok   == ~DailyLimitReached(f.daily_requests) /\ ~TokenShortage(tok1)
    IN  [tokens         |-> IF ok THEN tok1 - OneToken ELSE tok1,
         last_refill    |-> t,
         daily_requests |-> IF ok THEN dr1 + 1 ELSE dr1,
         daily_reset    |-> rs1,
         ret            |-> ok]

\* RateLimiter.acquire as a function of the fields and the time of the call:
\* the fields after the call and the value returned
AcquireOutcome(f, t) ==
    LET tok1 == Refill(f.tokens, f.last_refill, t)
        due  == ResetDue(t, f.daily_reset)
        dr1  == IF due THEN 0 ELSE f.daily_requests
        rs1  == IF due THEN t + Day ELSE f.daily_reset
        ok   == ~DailyLimitReached(dr1) /\ ~TokenShortage(tok1)
    IN  [tokens         |-> IF ok THEN tok1 - OneToken ELSE tok1,
         last_refill    |-> t,
         daily_requests |-> IF ok THEN dr1 + 1 ELSE dr1,
         daily_reset    |-> rs1,
         ret            |-> ok]

Fields == [tokens |-> tokens, last_refill |-> last_refill,
           daily_requests |-> daily_requests, daily_reset |-> daily_reset]

NoFields == [tokens |-> 0, last_refill |-> 0, daily_requests |-> 0,
             daily_reset |-> 0]

\* RateLimiter.__init__ at time 0
LimiterInit(rates, limits) ==
    /\ max_per_second \in rates
    /\ max_per_day \in limits
    /\ tokens = max_per_second
    /\ last_refill = 0
    /\ daily_requests = 0
    /\ daily_reset = 0 + Day
    /\ lock = 0

SeqInit ==
    /\ called = FALSE
    /\ result = FALSE
    /\ grants = <<>>
    /\ paced = TRUE
    /\ pre = NoFields

\* the grant times that are less than a day old at time t
Recent(g, t) == SelectSeq(g, LAMBDA x : t - x < Day)

\* 1/N seconds, N = max_per_second: the time in which one token is refilled
TokenPeriod == (OneToken * TicksPerSecond) \div max_per_second

\* one call of acquire() with no other caller: lines 40-70 as one step
Acquire ==
    LET out == AcquireOutcome(Fields, now) IN
    /\ tokens' = out.tokens
    /\ last_refill' = out.last_refill
    /\ daily_requests' = out.daily_requests
    /\ daily_reset' = out.daily_reset
    /\ called' = TRUE
    /\ result' = out.ret
    /\ grants' = IF out.ret THEN Append(Recent(grants, now), now)
                            ELSE Recent(grants, now)
    /\ paced' = (paced /\ (~called \/ now - last_refill = TokenPeriod))
    /\ pre' = Fields
    /\ UNCHANGED <<now, max_per_second, max_per_day, lock>>
    /\ UNCHANGED <<taskVars, breakerVars, cbObsVars>>

\* time passes
TickLimiter ==
    /\ now < MaxSeconds * TicksPerSecond
    /\ now' = now + 1
    /\ UNCHANGED <<limiterVars, seqVars, taskVars, breakerVars, cbObsVars>>

----------------------------------------------------------------------------
(* acquire() called by several tasks: `async with self.lock` around the body *)

Tasks == 1..NumTasks

TaskInit ==
    /\ pc = [i \in Tasks |-> "idle"]
    /\ tnow = [i \in Tasks |-> 0]
    /\ tret = [i \in Tasks |-> FALSE]
    /\ snap = [i \in Tasks |-> NoFields]

\* a lock that never makes a caller wait
LockAlwaysFree(l) == TRUE

\* asyncio.Lock: acquire() proceeds only when the lock is not held
LockFree(l) == l = 0

\* a task calls acquire() and waits at `async with self.lock`
Call(i) ==
    /\ pc[i] \in {"idle", "done"}
    /\ pc' = [pc EXCEPT ![i] = "lock"]
    /\ UNCHANGED <<now, limiterVars, seqVars, tnow, tret, snap,
                   breakerVars, cbObsVars>>

\* line 40: the task gets the lock
Lock(i) ==
    /\ pc[i] = "lock"
    /\ LockFree(lock)
    /\ lock' = i
    /\ snap' = [snap EXCEPT ![i] = Fields]
    /\ pc' = [pc EXCEPT ![i] = "refill"]
    /\ UNCHANGED <<now, max_per_second, max_per_day, tokens, last_refill,
                   daily_requests, daily_reset, seqVars, tnow, tret,
                   breakerVars, cbObsVars>>

\* lines 42-48
RefillStep(i) ==
    /\ pc[i] = "refill"
    /\ tnow' = [tnow EXCEPT ![i] = now]
    /\ tokens' = Refill(tokens, last_refill, now)
    /\ last_refill' = now
    /\ pc' = [pc EXCEPT ![i] = "reset"]
    /\ UNCHANGED <<now, max_per_second, max_per_day, daily_requests,
                   daily_reset, lock, seqVars, tret, snap,
                   breakerVars, cbObsVars>>

\* lines 51-54
ResetStep(i) ==
    /\ pc[i] = "reset"
    /\ IF ResetDue(tnow[i], daily_reset)
         THEN /\ daily_requests' = 0
              /\ daily_reset' = tnow[i] + Day
         ELSE UNCHANGED <<daily_requests, daily_reset>>
    /\ pc' = [pc EXCEPT ![i] = "daily"]
    /\ UNCHANGED <<now, max_per_second, max_per_day, tokens, last_refill,
                   lock, seqVars, tnow, tret, snap, breakerVars, cbObsVars>>

\* lines 57-59: return False (leaving the `async with` releases the lock)
DailyCheck(i) ==
    /\ pc[i] = "daily"
    /\ IF DailyLimitReached(daily_requests)
         THEN /\ tret' = [tret EXCEPT ![i] = FALSE]
              /\ lock' = 0
              /\ pc' = [pc EXCEPT ![i] = "done"]
              /\ snap' = [snap EXCEPT ![i] = NoFields]
         ELSE /\ pc' = [pc EXCEPT ![i] = "tokens"]
              /\ UNCHANGED <<tret, lock, snap>>
    /\ UNCHANGED <<now, max_per_second, max_per_day, tokens, last_refill,
                   daily_requests, daily_reset, seqVars, tnow,
                   breakerVars, cbObsVars>>

\* lines 62-64
TokenCheck(i) ==
    /\ pc[i] = "tokens"
    /\ IF TokenShortage(tokens)
         THEN /\ tret' = [tret EXCEPT ![i] = FALSE]
              /\ lock' = 0
              /\ pc' = [pc EXCEPT ![i] = "done"]
              /\ snap' = [snap EXCEPT ![i] = NoFields]
         ELSE /\ pc' = [pc EXCEPT ![i] = "consume"]
              /\ UNCHANGED <<tret, lock, snap>>
    /\ UNCHANGED <<now, max_per_second, max_per_day, tokens, last_refill,
                   daily_requests, daily_reset, seqVars, tnow,
                   breakerVars, cbObsVars>>

\* lines 67-70
Consume(i) ==
    /\ pc[i] = "consume"
    /\ tokens' = tokens - OneToken
    /\ daily_requests' = daily_requests + 1
    /\ tret' = [tret EXCEPT ![i] = TRUE]
    /\ lock' = 0
    /\ pc' = [pc EXCEPT ![i] = "done"]
    /\ snap' = [snap EXCEPT ![i] = NoFields]
    /\ UNCHANGED <<now, max_per_second, max_per_day, last_refill,
                   daily_reset, seqVars, tnow, breakerVars, cbObsVars>>

TickTasks ==
    /\ now < MaxTaskSeconds * TicksPerSecond
    /\ now' = now + 1
    /\ UNCHANGED <<limiterVars, seqVars, taskVars, breakerVars, cbObsVars>>

----------------------------------------------------------------------------
(* CircuitBreaker *)

None == -1              \* last_failure_time before any failure

CLOSED    == "closed"
OPEN      == "open"
HALF_OPEN == "half_open"

BreakerFields == [state |-> state, failure_count |-> failure_count,
                  last_failure_time |-> last_failure_time, now |-> now]

\* CircuitBreaker.__init__
BreakerInit(thresholds, timeouts) ==
    /\ failure_threshold \in thresholds
    /\ timeout \in timeouts
    /\ state = CLOSED
    /\ failure_count = 0
    /\ last_failure_time = None

ObsInit ==
    /\ op = "none"
    /\ allowed = FALSE
    /\ prev = [state |-> CLOSED, failure_count |-> 0,
               last_failure_time |-> None, now |-> 0]
    /\ failures_reported = 0

\* the timeout test with > for >=
TimeoutPassedStrict(lft, t) == lft # None /\ t - lft > timeout

\* lines 38-40: an Open breaker whose timeout has passed
TimeoutPassed(lft, t) == lft # None /\ t - lft >= timeout

\* allow_request turning callers away while HalfOpen
AllowResultNoProbes(st, lft, t) ==
    IF st = CLOSED THEN TRUE
    ELSE IF st = OPEN THEN TimeoutPassed(lft, t)
    ELSE FALSE

\* allow_request: the value returned
AllowResult(st, lft, t) ==
    IF st = CLOSED THEN TRUE
    ELSE IF st = OPEN THEN TimeoutPassed(lft, t)
    ELSE IF st = HALF_OPEN THEN TRUE
    ELSE FALSE

\* allow_request: the state it leaves
StateAfterAllow(st, lft, t) ==
    IF st = OPEN /\ TimeoutPassed(lft, t) THEN HALF_OPEN ELSE st

\* record_failure opening only above the threshold
StateAfterFailureStrict(st, fc) ==
    LET st1 == IF st = HALF_OPEN THEN OPEN ELSE st
    IN  IF fc > failure_threshold /\ st1 = CLOSED THEN OPEN ELSE st1

\* record_failure without the HalfOpen branch
StateAfterFailureNoReopen(st, fc) ==
    IF fc >= failure_threshold /\ st = CLOSED THEN OPEN ELSE st

\* record_failure: the state it leaves, fc being the incremented count
StateAfterFailure(st, fc) ==
    LET st1 == IF st = HALF_OPEN THEN OPEN ELSE st
    IN  IF fc >= failure_threshold /\ st1 = CLOSED THEN OPEN ELSE st1

AllowRequest ==
    /\ allowed' = AllowResult(state, last_failure_time, now)
    /\ state' = StateAfterAllow(state, last_failure_time, now)
    /\ op' = "allow_request"
    /\ prev' = BreakerFields
    /\ UNCHANGED <<failure_threshold, timeout, failure_count,
                   last_failure_time, failures_reported>>
    /\ UNCHANGED <<now, limiterVars, seqVars, taskVars>>

\* record_success closing the breaker from Open as well
RecordSuccessFromOpen ==
    /\ IF state \in {HALF_OPEN, OPEN}
         THEN /\ state' = CLOSED
              /\ failure_count' = 0
              /\ failures_reported' = 0
         ELSE UNCHANGED <<state, failure_count, failures_reported>>
    /\ op' = "record_success"
    /\ prev' = BreakerFields
    /\ UNCHANGED <<failure_threshold, timeout, last_failure_time, allowed>>
    /\ UNCHANGED <<now, limiterVars, seqVars, taskVars>>

\* record_success that clears the count in every state
RecordSuccessResetting ==
    /\ state' = (IF state = HALF_OPEN THEN CLOSED ELSE state)
    /\ failure_count' = 0
    /\ failures_reported' = 0
    /\ op' = "record_success"
    /\ prev' = BreakerFields
    /\ UNCHANGED <<failure_threshold, timeout, last_failure_time, allowed>>
    /\ UNCHANGED <<now, limiterVars, seqVars, taskVars>>

\* record_success that closes a HalfOpen breaker and keeps the count
RecordSuccessKeepingCount ==
    /\ state' = (IF state = HALF_OPEN THEN CLOSED ELSE state)
    /\ op' = "record_success"
    /\ prev' = BreakerFields
    /\ UNCHANGED <<failure_count, failures_reported>>
    /\ UNCHANGED <<failure_threshold, timeout, last_failure_time, allowed>>
    /\ UNCHANGED <<now, limiterVars, seqVars, taskVars>>

\* record_success that never closes the breaker
RecordSuccessNever ==
    /\ op' = "record_success"
    /\ prev' = BreakerFields
    /\ UNCHANGED <<state, failure_count, failures_reported>>
    /\ UNCHANGED <<failure_threshold, timeout, last_failure_time, allowed>>
    /\ UNCHANGED <<now, limiterVars, seqVars, taskVars>>

RecordSuccess ==
    /\ IF state = HALF_OPEN
         THEN /\ state' = CLOSED
              /\ failure_count' = 0
              /\ failures_reported' = 0
         ELSE UNCHANGED <<state, failure_count, failures_reported>>
    /\ op' = "record_success"
    /\ prev' = BreakerFields
    /\ UNCHANGED <<failure_threshold, timeout, last_failure_time, allowed>>
    /\ UNCHANGED <<now, limiterVars, seqVars, taskVars>>

\* record_failure that does not stamp last_failure_time
RecordFailureNoTimestamp ==
    /\ failure_count < MaxFailures
    /\ failure_count' = failure_count + 1
    /\ state' = StateAfterFailure(state, failure_count + 1)
    /\ failures_reported' = failures_reported + 1
    /\ op' = "record_failure"
    /\ prev' = BreakerFields
    /\ UNCHANGED <<failure_threshold, timeout, allowed, last_failure_time>>
    /\ UNCHANGED <<now, limiterVars, seqVars, taskVars>>

\* record_failure writing back a count read before the previous report
RecordFailureLostUpdate ==
    /\ failure_count < MaxFailures
    /\ failure_count' = (IF op = "record_failure" THEN prev.failure_count
                                                  ELSE failure_count) + 1
    /\ last_failure_time' = now
    /\ state' = StateAfterFailure(state, failure_count')
    /\ failures_reported' = failures_reported + 1
    /\ op' = "record_failure"
    /\ prev' = BreakerFields
    /\ UNCHANGED <<failure_threshold, timeout, allowed>>
    /\ UNCHANGED <<now, limiterVars, seqVars, taskVars>>

\* record_failure that stamps the time only when the breaker is not Open
RecordFailureStampOnTrip ==
    /\ failure_count < MaxFailures
    /\ failure_count' = failure_count + 1
    /\ last_failure_time' = (IF state = OPEN THEN last_failure_time ELSE now)
    /\ state' = StateAfterFailure(state, failure_count + 1)
    /\ failures_reported' = failures_reported + 1
    /\ op' = "record_failure"
    /\ prev' = BreakerFields
    /\ UNCHANGED <<failure_threshold, timeout, allowed>>
    /\ UNCHANGED <<now, limiterVars, seqVars, taskVars>>

RecordFailure ==
    /\ failure_count < MaxFailures
    /\ failure_count' = failure_count + 1
    /\ last_failure_time' = now
    /\ state' = StateAfterFailure(state, failure_count + 1)
    /\ failures_reported' = failures_reported + 1
    /\ op' = "record_failure"
    /\ prev' = BreakerFields
    /\ UNCHANGED <<failure_threshold, timeout, allowed>>
    /\ UNCHANGED <<now, limiterVars, seqVars, taskVars>>

TickBreaker ==
    /\ now < MaxClock
    /\ now' = now + 1
    /\ UNCHANGED <<limiterVars, seqVars, taskVars, breakerVars, cbObsVars>>

----------------------------------------------------------------------------
(* Read-only snapshots *)

ViewInit ==
    /\ stats = [tokens_available |-> 0, daily_requests_used |-> 0,
                daily_requests_limit |-> 0, daily_reset_in |-> 0]
    /\ view = [state |-> "none", failure_count |-> 0, failure_threshold |-> 0]

\* a get_stats() that brings the bucket up to date before reporting it
GetStatsRefilling ==
    /\ tokens' = Refill(tokens, last_refill, now)
    /\ last_refill' = now
    /\ stats' = [tokens_available     |-> tokens',
                 daily_requests_used  |-> daily_requests,
                 daily_requests_limit |-> max_per_day,
                 daily_reset_in       |-> daily_reset - now]
    /\ UNCHANGED <<now, max_per_second, max_per_day, daily_requests,
                   daily_reset, lock, seqVars, taskVars, breakerVars,
                   cbObsVars, view, otherThanViews>>

\* RateLimiter.get_stats
GetStats ==
    /\ stats' = [tokens_available     |-> tokens,
                 daily_requests_used  |-> daily_requests,
                 daily_requests_limit |-> max_per_day,
                 daily_reset_in       |-> daily_reset - now]
    /\ UNCHANGED <<now, limiterVars, seqVars, taskVars, breakerVars,
                   cbObsVars, view, otherThanViews>>

\* CircuitBreaker.get_state
GetState ==
    /\ view' = [state |-> state, failure_count |-> failure_count,
                failure_threshold |-> failure_threshold]
    /\ UNCHANGED <<now, limiterVars, seqVars, taskVars, breakerVars,
                   cbObsVars, stats, otherThanViews>>

ScenInit ==
    /\ ncalls = 0
    /\ rapid = TRUE
    /\ spaced = TRUE

\* acquire() as one call of a scenario: the calls are counted and their
\* spacing is observed
AcquireCounted ==
    /\ ncalls < MaxCalls
    /\ Acquire
    /\ ncalls' = ncalls + 1
    /\ rapid' = (rapid /\ (~called \/ now = last_refill))
    /\ spaced' = (spaced /\ (~called \/ now - last_refill >= TicksPerSecond))
    /\ UNCHANGED otherThanScen

TickViews ==
    /\ now < MaxViewTicks
    /\ now' = now + 1
    /\ UNCHANGED <<limiterVars, seqVars, taskVars, breakerVars, cbObsVars>>

\* record_failure() while the clock still leaves room for the timeout
RecordFailureInTime ==
    /\ now + timeout <= MaxClock
    /\ RecordFailure

----------------------------------------------------------------------------
(* CacheManager: a TTLCache in front of an optional Redis server *)

\* the value get() returns for a miss
Absent == "None"

\* CacheManager._hash_key: the md5 hex digest of the key
hash_key(k) == CASE k = "k1" -> "h1"

\* CacheManager._generate_key: f"{namespace}:{hash}"
generate_key(k, ns) == ns \o <<":", hash_key(k)>>

CacheKeys == {generate_key(k, ns) : k \in Keys, ns \in Namespaces}

\* json.dumps(value): a tuple is written as a JSON array, None as null
Dumps(v) == CASE v = "s1" -> "'s1'"
              [] v \in {"tuple1", "list1"} -> "[1]"
              [] v = Absent -> "null"

NoError == "none"

\* json.loads: a JSON array is read back as a list; other text is an error
Loads(text) ==
    CASE text = "'s1'" -> [exc |-> NoError, value |-> "s1"]
      [] text = "[1]"  -> [exc |-> NoError, value |-> "list1"]
      [] text = "null" -> [exc |-> NoError, value |-> Absent]
      [] OTHER         -> [exc |-> "JSONDecodeError", value |-> Absent]

\* texts another writer may leave under a key: broken JSON, the empty string
MalformedTexts == {"{", ""}

\* `if value:` on what redis.get returned
Truthy(text) == text # "nil" /\ text # ""

\* an except clause for redis errors only
CaughtRedisOnly(exc) == exc = "ConnectionError"

\* `except Exception`: it catches the connection and the decoding errors alike
Caught(exc) == exc \in {"ConnectionError", "JSONDecodeError"}

\* the exception leaves the operation
Escapes(exc) == exc # NoError /\ ~Caught(exc)

\* an entry of either tier is visible until its expiry time
Live(e, t) == t < e.expires

\* a membership test that never finds the key
MemHasNever(mc, ck, t) == FALSE

\* cache_key in self.memory_cache
MemHas(mc, ck, t) == \E i \in DOMAIN mc : mc[i].key = ck /\ Live(mc[i], t)

\* self.memory_cache[cache_key]
MemValue(mc, ck) == mc[CHOOSE i \in DOMAIN mc : mc[i].key = ck].value

\* TTLCache.expire
MemExpire(mc, t) == SelectSeq(mc, LAMBDA e : Live(e, t))

MemWithout(mc, ck) == SelectSeq(mc, LAMBDA e : e.key # ck)

\* an assignment that drops the old entry and stores nothing
MemSetNoStore(mc, ck, v, t) == MemWithout(MemExpire(mc, t), ck)

\* self.memory_cache[cache_key] = value: expired entries go, the oldest entry
\* makes room when the cache is full, the new entry lives cache_ttl_search
MemSet(mc, ck, v, t) ==
    LET rest == MemWithout(MemExpire(mc, t), ck)
        room == IF Len(rest) >= maxsize THEN Tail(rest) ELSE rest
    IN  Append(room, [key |-> ck, value |-> v,
                      expires |-> t + cache_ttl_search])

\* if cache_key in self.memory_cache: del self.memory_cache[cache_key]
MemDel(mc, ck, t) == IF MemHas(mc, ck, t) THEN MemWithout(mc, ck) ELSE mc

NoValue == [text |-> "nil", expires |-> 0]

\* a redis GET that still answers for a key whose time has run out
RedisGetIgnoringExpiry(rs, ck, t) == rs[ck].text

\* redis GET: the text under the key, nil when there is none
RedisGet(rs, ck, t) == IF Live(rs[ck], t) THEN rs[ck].text ELSE "nil"

\* the composite key matches the pattern f"{namespace}:*"
Matches(ck, ns) ==
    /\ Len(ck) > Len(ns)
    /\ SubSeq(ck, 1, Len(ns) + 1) = ns \o <<":">>

\* redis KEYS pattern
RedisKeys(rs, ns, t) == {ck \in CacheKeys : Live(rs[ck], t) /\ Matches(ck, ns)}

\* a redis DEL that removes nothing
RedisDelNothing(rs, ck) == rs

\* redis DEL of one key
RedisDel(rs, ck) == [rs EXCEPT ![ck] = NoValue]

\* a redis DEL of several keys that stops after the first
RedisDelFirstOnly(rs, keys) ==
    IF keys = {} THEN rs
    ELSE [rs EXCEPT ![CHOOSE ck \in keys : TRUE] = NoValue]

\* redis DEL of several keys
RedisDelAll(rs, keys) ==
    [ck \in CacheKeys |-> IF ck \in keys THEN NoValue ELSE rs[ck]]

\* a redis call on a server that does not answer raises
RedisFault == IF redis_up THEN NoError ELSE "ConnectionError"

NoOp == [name |-> "none", key |-> "-", ns |-> <<>>, value |-> "-",
         ret |-> Absent, exc |-> NoError, raised |-> FALSE, again |-> FALSE,
         accessed |-> FALSE]

\* CacheManager.__init__ on an empty server
CacheInit ==
    /\ redis_client \in BOOLEAN
    /\ redis_up \in (IF redis_client THEN BOOLEAN ELSE {FALSE})
    /\ cache_ttl_search \in LocalTTLs
    /\ memory_cache = <<>>
    /\ redis_store = [ck \in CacheKeys |-> NoValue]
    /\ toggled = FALSE
    /\ kstat = [ck \in CacheKeys |-> "unset"]
    /\ cop = NoOp
    /\ nops = 0

\* the operation just made is recorded with what it returned, the exception
\* its distributed-tier part ended with, whether that exception left it,
\* whether it repeats the operation made just before, and whether it made a
\* call on the redis client
Observe(name, k, ns, v, ret, exc, acc) ==
    /\ cop' = [name |-> name, key |-> k, ns |-> ns, value |-> v,
               ret |-> ret, exc |-> exc, raised |-> Escapes(exc),
               again |-> (cop.name = name /\ cop.key = k /\ cop.ns = ns),
               accessed |-> acc]
    /\ nops' = nops + 1

\* a get() that returns what the server holds without keeping it locally
GetOutcomeNoWriteThrough(mc, rs, ck, t) ==
    IF MemHas(mc, ck, t)
    THEN [ret |-> MemValue(mc, ck), memory |-> mc, exc |-> NoError,
          accessed |-> FALSE]
    ELSE IF ~redis_client
    THEN [ret |-> Absent, memory |-> mc, exc |-> NoError,
          accessed |-> FALSE]
    ELSE IF RedisFault # NoError
    THEN [ret |-> Absent, memory |-> mc, exc |-> RedisFault,
          accessed |-> TRUE]
    ELSE LET value == RedisGet(rs, ck, t)
             d     == Loads(value)
         IN  IF ~Truthy(value) \/ d.exc # NoError
             THEN [ret |-> Absent, memory |-> mc,
                   exc |-> IF Truthy(value) THEN d.exc ELSE NoError,
                   accessed |-> TRUE]
             ELSE [ret |-> d.value, memory |-> mc, exc |-> NoError,
                   accessed |-> TRUE]

\* what get() returns, the local tier it leaves, the exception met and
\* whether redis.get was called
GetOutcome(mc, rs, ck, t) ==
    IF MemHas(mc, ck, t)
    THEN [ret |-> MemValue(mc, ck), memory |-> mc, exc |-> NoError,
          accessed |-> FALSE]
    ELSE IF ~redis_client
    THEN [ret |-> Absent, memory |-> mc, exc |-> NoError,
          accessed |-> FALSE]
    ELSE IF RedisFault # NoError
    THEN [ret |-> Absent, memory |-> mc, exc |-> RedisFault,
          accessed |-> TRUE]
    ELSE LET value == RedisGet(rs, ck, t)
             d     == Loads(value)
         IN  IF ~Truthy(value)
             THEN [ret |-> Absent, memory |-> mc, exc |-> NoError,
                   accessed |-> TRUE]
             ELSE IF d.exc # NoError
             THEN [ret |-> Absent, memory |-> mc, exc |-> d.exc,
                   accessed |-> TRUE]
             ELSE [ret |-> d.value, memory |-> MemSet(mc, ck, d.value, t),
                   exc |-> NoError, accessed |-> TRUE]

\* CacheManager.get
CacheGet(k, ns) ==
    LET ck  == generate_key(k, ns)
        out == GetOutcome(memory_cache, redis_store, ck, now)
    IN  /\ memory_cache' = out.memory
        /\ UNCHANGED <<redis_client, redis_up, cache_ttl_search, redis_store,
                       toggled, kstat>>
        /\ Observe("get", k, ns, "-", out.ret, out.exc, out.accessed)
        /\ UNCHANGED <<now, limiterVars, seqVars, taskVars, breakerVars,
                       cbObsVars>>

\* a set() whose local entry lives for the ttl argument
CacheSetLocalTTLFromArgument(k, v, ns, T) ==
    LET ck   == generate_key(k, ns)
        ttl  == IF T # 0 THEN T ELSE cache_ttl_search
        exc  == IF redis_client THEN RedisFault ELSE NoError
        rest == MemWithout(MemExpire(memory_cache, now), ck)
        room == IF Len(rest) >= maxsize THEN Tail(rest) ELSE rest
    IN  /\ memory_cache' = Append(room, [key |-> ck, value |-> v,
                                         expires |-> now + ttl])
        /\ redis_store' =
               IF redis_client /\ exc = NoError
               THEN [redis_store EXCEPT
                        ![ck] = [text |-> Dumps(v), expires |-> now + ttl]]
               ELSE redis_store
        /\ kstat' = [kstat EXCEPT ![ck] = "set"]
        /\ UNCHANGED <<redis_client, redis_up, cache_ttl_search, toggled>>
        /\ Observe("set", k, ns, v, Absent, exc, redis_client)
        /\ UNCHANGED <<now, limiterVars, seqVars, taskVars, breakerVars,
                       cbObsVars>>

\* CacheManager.set; T is the ttl argument
CacheSet(k, v, ns, T) ==
    LET ck  == generate_key(k, ns)
        ttl == IF T # 0 THEN T ELSE cache_ttl_search
        exc == IF redis_client THEN RedisFault ELSE NoError
    IN  /\ memory_cache' = MemSet(memory_cache, ck, v, now)
        /\ redis_store' =
               IF redis_client /\ exc = NoError
               THEN [redis_store EXCEPT
                        ![ck] = [text |-> Dumps(v), expires |-> now + ttl]]
               ELSE redis_store
        /\ kstat' = [kstat EXCEPT ![ck] = "set"]
        /\ UNCHANGED <<redis_client, redis_up, cache_ttl_search, toggled>>
        /\ Observe("set", k, ns, v, Absent, exc, redis_client)
        /\ UNCHANGED <<now, limiterVars, seqVars, taskVars, breakerVars,
                       cbObsVars>>

\* CacheManager.delete
CacheDelete(k, ns) ==
    LET ck  == generate_key(k, ns)
        exc == IF redis_client THEN RedisFault ELSE NoError
    IN  /\ memory_cache' = MemDel(memory_cache, ck, now)
        /\ redis_store' =
               IF redis_client /\ exc = NoError
               THEN RedisDel(redis_store, ck)
               ELSE redis_store
        /\ kstat' = [kstat EXCEPT ![ck] =
                        IF @ \in {"unset", "deleted_unset"}
                        THEN "deleted_unset" ELSE "deleted"]
        /\ UNCHANGED <<redis_client, redis_up, cache_ttl_search, toggled>>
        /\ Observe("delete", k, ns, "-", Absent, exc, redis_client)
        /\ UNCHANGED <<now, limiterVars, seqVars, taskVars, breakerVars,
                       cbObsVars>>

\* a clear_namespace that also drops the namespace's local entries
ClearNamespaceBothTiers(ns) ==
    LET exc  == IF redis_client THEN RedisFault ELSE NoError
        keys == RedisKeys(redis_store, ns, now)
    IN  /\ redis_store' =
               IF redis_client /\ exc = NoError
               THEN RedisDelAll(redis_store, keys)
               ELSE redis_store
        /\ memory_cache' = SelectSeq(memory_cache,
                                     LAMBDA e : ~Matches(e.key, ns))
        /\ UNCHANGED <<redis_client, redis_up, cache_ttl_search, toggled,
                       kstat>>
        /\ Observe("clear_namespace", "-", ns, "-", Absent, exc,
                   redis_client)
        /\ UNCHANGED <<now, limiterVars, seqVars, taskVars, breakerVars,
                       cbObsVars>>

\* CacheManager.clear_namespace
ClearNamespace(ns) ==
    LET exc  == IF redis_client THEN RedisFault ELSE NoError
        keys == RedisKeys(redis_store, ns, now)
    IN  /\ redis_store' =
               IF redis_client /\ exc = NoError
               THEN RedisDelAll(redis_store, keys)
               ELSE redis_store
        /\ UNCHANGED <<redis_client, redis_up, cache_ttl_search, memory_cache,
                       toggled, kstat>>
        /\ Observe("clear_namespace", "-", ns, "-", Absent, exc,
                   redis_client)
        /\ UNCHANGED <<now, limiterVars, seqVars, taskVars, breakerVars,
                       cbObsVars>>

\* a step of the environment, recorded like an operation
Passed(name) == cop' = [NoOp EXCEPT !.name = name]

TickCache ==
    /\ now < MaxCacheTicks
    /\ now' = now + 1
    /\ Passed("tick")
    /\ UNCHANGED <<redis_client, redis_up, cache_ttl_search, memory_cache,
                   redis_store, toggled, kstat, nops>>
    /\ UNCHANGED <<limiterVars, seqVars, taskVars, breakerVars, cbObsVars>>

\* the Redis server goes down or comes back
ToggleRedis ==
    /\ redis_client
    /\ redis_up' = ~redis_up
    /\ toggled' = TRUE
    /\ nops' = nops + 1
    /\ Passed("toggle")
    /\ UNCHANGED <<redis_client, cache_ttl_search, memory_cache, redis_store,
                   kstat>>
    /\ UNCHANGED <<now, limiterVars, seqVars, taskVars, breakerVars,
                   cbObsVars>>

\* the text the server holds under a key is damaged
Corrupt(ck, text) ==
    /\ redis_client
    /\ Live(redis_store[ck], now)
    /\ redis_store[ck].text # text
    /\ redis_store' = [redis_store EXCEPT ![ck].text = text]
    /\ nops' = nops + 1
    /\ Passed("corrupt")
    /\ UNCHANGED <<redis_client, redis_up, cache_ttl_search, memory_cache,
                   toggled, kstat>>
    /\ UNCHANGED <<now, limiterVars, seqVars, taskVars, breakerVars,
                   cbObsVars>>

----------------------------------------------------------------------------
(* CacheManager.get suspended at its await: other cache operations run     *)
(* between the server's reply and the resumption of the get                *)

NoPending == [active |-> FALSE, key |-> "-", ns |-> <<>>, text |-> "nil",
              exc |-> NoError]

AwaitInit ==
    /\ pending = NoPending
    /\ written = [ck \in CacheKeys |-> Absent]
    /\ stamped = [ck \in CacheKeys |-> [at |-> 0, ttl |-> 0]]

\* lines 69-79: get() misses the local tier and awaits redis.get; the server
\* answers from what it holds now
GetAwait(k, ns) ==
    LET ck == generate_key(k, ns) IN
    /\ ~pending.active
    /\ redis_client
    /\ ~MemHas(memory_cache, ck, now)
    /\ pending' = [active |-> TRUE, key |-> k, ns |-> ns,
                   text |-> IF RedisFault = NoError
                               THEN RedisGet(redis_store, ck, now) ELSE "nil",
                   exc |-> RedisFault]
    /\ UNCHANGED <<written, stamped>>
    /\ UNCHANGED cacheVars
    /\ UNCHANGED <<now, limiterVars, seqVars, taskVars, breakerVars,
                   cbObsVars>>

\* lines 80-90 for the reply the get was resumed with: the value returned,
\* the local tier left, the exception met
ResumeOutcome(mc, ck, reply, t) ==
    LET d == Loads(reply.text) IN
    IF reply.exc # NoError
    THEN [ret |-> Absent, memory |-> mc, exc |-> reply.exc]
    ELSE IF ~Truthy(reply.text)
    THEN [ret |-> Absent, memory |-> mc, exc |-> NoError]
    ELSE IF d.exc # NoError
    THEN [ret |-> Absent, memory |-> mc, exc |-> d.exc]
    ELSE [ret |-> d.value, memory |-> MemSet(mc, ck, d.value, t),
          exc |-> NoError]

\* the suspended get is resumed with the reply and runs to its return
GetResume ==
    LET ck  == generate_key(pending.key, pending.ns)
        out == ResumeOutcome(memory_cache, ck, pending, now)
    IN  /\ pending.active
        /\ memory_cache' = out.memory
        /\ pending' = NoPending
        /\ UNCHANGED <<written, stamped>>
        /\ UNCHANGED <<redis_client, redis_up, cache_ttl_search, redis_store,
                       toggled, kstat>>
        /\ Observe("get_resumed", pending.key, pending.ns, "-", out.ret,
                   out.exc, TRUE)
        /\ UNCHANGED <<now, limiterVars, seqVars, taskVars, breakerVars,
                       cbObsVars>>

\* set(), with the value noted as the last one written under the key
SetNoted(k, v, ns, T) ==
    /\ CacheSet(k, v, ns, T)
    /\ written' = [written EXCEPT ![generate_key(k, ns)] = v]
    /\ stamped' = [stamped EXCEPT ![generate_key(k, ns)] =
                      [at |-> now,
                       ttl |-> IF T # 0 THEN T ELSE cache_ttl_search]]
    /\ UNCHANGED pending

\* time passes, past the lifetimes of both tiers
TickOutage ==
    /\ now < MaxOutageTicks
    /\ now' = now + 1
    /\ Passed("tick")
    /\ UNCHANGED <<redis_client, redis_up, cache_ttl_search, memory_cache,
                   redis_store, toggled, kstat, nops>>
    /\ UNCHANGED <<limiterVars, seqVars, taskVars, breakerVars, cbObsVars>>

----------------------------------------------------------------------------
(* PAAPIClient.search_items / get_items: the two gates, the outbound call, *)
(* the report to the breaker.  A request runs without interruption between *)
(* two awaits; `running` is the request that holds the event loop.         *)

Requests == 1..NumRequests

\* positions at which a request has left the method
Terminal == {"rate_limited", "circuit_open", "mock_returned", "returned",
             "failed"}

ClientInit ==
    /\ mock_mode \in BOOLEAN
    /\ rpc = [r \in Requests |-> "idle"]
    /\ rlog = [r \in Requests |-> <<>>]
    /\ running = 0
    /\ nreq = 0
    /\ overlapped = FALSE

\* a client that goes on whatever acquire() returned
AfterAcquireIgnored(ok) == "acquired"

\* if not await self.rate_limiter.acquire(): raise Exception(...)
AfterAcquire(ok) == IF ok THEN "acquired" ELSE "rate_limited"

\* a client whose breaker check sits inside the try block
AfterAllowInsideTry(ok) ==
    IF ~ok THEN "raised"
    ELSE IF mock_mode THEN "mock_returned" ELSE "calling"

\* if not self.circuit_breaker.allow_request(): raise Exception(...);
\* if settings.mock_mode: return the mock data
AfterAllow(ok) ==
    IF ~ok THEN "circuit_open"
    ELSE IF mock_mode THEN "mock_returned" ELSE "calling"

Logged(r, what) == rlog' = [rlog EXCEPT ![r] = Append(@, what)]

\* a request enters the method and asks the rate limiter
Begin(r) ==
    /\ running = 0
    /\ rpc[r] \in {"idle"} \cup Terminal
    /\ nreq < MaxRequests
    /\ Acquire
    /\ rlog' = [rlog EXCEPT ![r] =
                   <<IF result' THEN "acquire:true" ELSE "acquire:false">>]
    /\ rpc' = [rpc EXCEPT ![r] = AfterAcquire(result')]
    /\ running' = IF rpc'[r] \in Terminal THEN 0 ELSE r
    /\ nreq' = nreq + 1
    /\ UNCHANGED <<mock_mode, overlapped>>

\* a client that hands its token back when the breaker turns it away
AskBreakerRefunding(r) ==
    LET ok == AllowResult(state, last_failure_time, now) IN
    /\ running = r
    /\ rpc[r] = "acquired"
    /\ allowed' = ok
    /\ state' = StateAfterAllow(state, last_failure_time, now)
    /\ op' = "allow_request"
    /\ prev' = BreakerFields
    /\ tokens' = (IF ok THEN tokens ELSE tokens + OneToken)
    /\ daily_requests' = (IF ok THEN daily_requests ELSE daily_requests - 1)
    /\ Logged(r, IF ok THEN "allow:true" ELSE "allow:false")
    /\ rpc' = [rpc EXCEPT ![r] = AfterAllow(ok)]
    /\ running' = 0
    /\ overlapped' = (overlapped \/ (rpc'[r] = "calling"
                                      /\ \E q \in Requests \ {r} :
                                            rpc[q] = "calling"))
    /\ UNCHANGED <<mock_mode, nreq>>
    /\ UNCHANGED <<failure_threshold, timeout, failure_count,
                   last_failure_time, failures_reported>>
    /\ UNCHANGED <<now, max_per_second, max_per_day, last_refill,
                   daily_reset, lock, seqVars, taskVars>>

\* it asks the breaker; admitted, it hands the SDK call to the executor and
\* awaits it (or returns mock data)
AskBreaker(r) ==
    /\ running = r
    /\ rpc[r] = "acquired"
    /\ AllowRequest
    /\ Logged(r, IF allowed' THEN "allow:true" ELSE "allow:false")
    /\ rpc' = [rpc EXCEPT ![r] = AfterAllow(allowed')]
    /\ running' = IF rpc'[r] = "raised" THEN r ELSE 0
    /\ overlapped' = (overlapped \/ (rpc'[r] = "calling"
                                      /\ \E q \in Requests \ {r} :
                                            rpc[q] = "calling"))
    /\ UNCHANGED <<mock_mode, nreq>>

\* the outbound call is made and returns a response: record_success()
CallReturns(r) ==
    /\ running = 0
    /\ rpc[r] = "calling"
    /\ RecordSuccess
    /\ rlog' = [rlog EXCEPT ![r] = @ \o <<"call", "record_success">>]
    /\ rpc' = [rpc EXCEPT ![r] = "parsing"]
    /\ running' = r
    /\ UNCHANGED <<mock_mode, nreq, overlapped>>

\* the outbound call is made and raises (ApiException or another Exception)
CallRaises(r) ==
    /\ running = 0
    /\ rpc[r] = "calling"
    /\ Logged(r, "call")
    /\ rpc' = [rpc EXCEPT ![r] = "raised"]
    /\ running' = r
    /\ UNCHANGED <<mock_mode, nreq, overlapped>>
    /\ UNCHANGED <<now, limiterVars, seqVars, taskVars, breakerVars,
                   cbObsVars>>

\* return self._parse_search_response(response): the parser returns
ParseReturns(r) ==
    /\ running = r
    /\ rpc[r] = "parsing"
    /\ rpc' = [rpc EXCEPT ![r] = "returned"]
    /\ running' = 0
    /\ UNCHANGED <<mock_mode, rlog, nreq, overlapped>>
    /\ UNCHANGED <<now, limiterVars, seqVars, taskVars, breakerVars,
                   cbObsVars>>

\* the parser raises, inside the same try block
ParseRaises(r) ==
    /\ running = r
    /\ rpc[r] = "parsing"
    /\ rpc' = [rpc EXCEPT ![r] = "raised"]
    /\ UNCHANGED <<mock_mode, rlog, running, nreq, overlapped>>
    /\ UNCHANGED <<now, limiterVars, seqVars, taskVars, breakerVars,
                   cbObsVars>>

\* except ApiException / except Exception: record_failure(), then raise
Except(r) ==
    /\ running = r
    /\ rpc[r] = "raised"
    /\ RecordFailure
    /\ Logged(r, "record_failure")
    /\ rpc' = [rpc EXCEPT ![r] = "failed"]
    /\ running' = 0
    /\ UNCHANGED <<mock_mode, nreq, overlapped>>

ProbeInit == admitted_in = [r \in Requests |-> "none"]

\* the request asks the breaker, the state the breaker was in being noted
AskBreakerNoted(r) ==
    /\ AskBreaker(r)
    /\ admitted_in' = [admitted_in EXCEPT ![r] = state]

TickClient ==
    /\ running = 0
    /\ now < MaxClientTicks
    /\ now' = now + 1
    /\ UNCHANGED <<limiterVars, seqVars, taskVars, breakerVars, cbObsVars>>
    /\ UNCHANGED clientVars

----------------------------------------------------------------------------
(* The @cached decorator.  wrapper() derives the key from the function's  *)
(* name and the call's arguments with json.dumps, looks it up, and on a    *)
(* miss awaits the function and stores what it returned.  The decorated    *)
(* function is a call through the client, as SearchService.search_products *)
(* is; calls of wrapper() are made one after another.                      *)

\* the decorated callables: a module-level function called with a string,
\* and a method, whose args tuple starts with the service instance
Wrapped == {[name |-> "get_product", bound |-> FALSE, ns |-> <<"a">>,
             ttl |-> 3],
            [name |-> "search_products", bound |-> TRUE,
             ns |-> <<"a", ":", "b">>, ttl |-> 3]}

\* what a decorated function may return: a result, or None
WrapResults == {"s1", Absent}

\* the request of the client in which the function's body runs
Body == 1

\* json.dumps({'func', 'args', 'kwargs'}, sort_keys=True): TypeError when
\* args holds an object that is not JSON serializable
KeyData(f) ==
    IF f.bound THEN [exc |-> "TypeError", text |-> "-"]
               ELSE [exc |-> NoError, text |-> "k1"]

\* `if cached_result is not None`
IsHit(cached_result) == cached_result # Absent

\* a live entry is kept for the key, locally or on a server that answers
EntryLive(ck) ==
    \/ MemHas(memory_cache, ck, now)
    \/ /\ redis_client
       /\ RedisFault = NoError
       /\ Truthy(RedisGet(redis_store, ck, now))

NoCall == [pc |-> "idle", func |-> "none", ns |-> <<>>, ttl |-> 0,
           had |-> FALSE, nreq0 |-> 0]

NoLast == [func |-> "none", had |-> FALSE, hit |-> FALSE, runs |-> 0,
           requests |-> 0, ret |-> Absent, exc |-> NoError, kept |-> FALSE]

WrapInit ==
    /\ wcall = NoCall
    /\ wlast = NoLast
    /\ nwraps = 0

\* wrapper() up to `await func(*args, **kwargs)`: the key, the lookup, and
\* the return of a hit
WrapperCall(f) ==
    LET kd  == KeyData(f)
        ck  == generate_key("k1", f.ns)
        had == kd.exc = NoError /\ EntryLive(ck)
    IN  /\ wcall.pc = "idle"
        /\ running = 0
        /\ nwraps < MaxWrapperCalls
        /\ nwraps' = nwraps + 1
        /\ IF kd.exc # NoError
           THEN /\ wcall' = NoCall
                /\ wlast' = [func |-> f.name, had |-> had, hit |-> FALSE,
                             runs |-> 0, requests |-> 0, ret |-> Absent,
                             exc |-> kd.exc, kept |-> FALSE]
                /\ UNCHANGED cacheVars
                /\ UNCHANGED <<now, limiterVars, seqVars, taskVars,
                               breakerVars, cbObsVars>>
           ELSE /\ CacheGet(kd.text, f.ns)
                /\ IF IsHit(cop'.ret)
                   THEN /\ wcall' = NoCall
                        /\ wlast' = [func |-> f.name, had |-> had,
                                     hit |-> TRUE, runs |-> 0,
                                     requests |-> 0, ret |-> cop'.ret,
                                     exc |-> NoError, kept |-> FALSE]
                   ELSE /\ wcall' = [pc |-> "func", func |-> f.name,
                                     ns |-> f.ns, ttl |-> f.ttl,
                                     had |-> had, nreq0 |-> nreq]
                        /\ UNCHANGED wlast
        /\ UNCHANGED clientVars

\* the function is entered: its call of search_items asks the rate limiter
FuncBegin ==
    /\ wcall.pc = "func"
    /\ Begin(Body)
    /\ wcall' = [wcall EXCEPT !.pc = "in_func"]
    /\ UNCHANGED <<wlast, nwraps>>
    /\ UNCHANGED cacheVars

\* the function returns v: `await cache_manager.set(cache_key, result,
\* namespace, ttl)`, `return result`
FuncReturns(v) ==
    LET ck == generate_key("k1", wcall.ns) IN
    /\ wcall.pc = "in_func"
    /\ running = 0
    /\ rpc[Body] \in {"returned", "mock_returned"}
    /\ CacheSet("k1", v, wcall.ns, wcall.ttl)
    /\ wcall' = NoCall
    /\ wlast' = [func |-> wcall.func, had |-> wcall.had, hit |-> FALSE,
                 runs |-> 1, requests |-> nreq - wcall.nreq0, ret |-> v,
                 exc |-> NoError,
                 kept |-> (MemHas(memory_cache', ck, now)
                           /\ MemValue(memory_cache', ck) = v)]
    /\ UNCHANGED nwraps
    /\ UNCHANGED clientVars

\* the function raises what search_items raised: nothing is stored
FuncRaises ==
    /\ wcall.pc = "in_func"
    /\ running = 0
    /\ rpc[Body] \in {"rate_limited", "circuit_open", "failed"}
    /\ wcall' = NoCall
    /\ wlast' = [func |-> wcall.func, had |-> wcall.had, hit |-> FALSE,
                 runs |-> 1, requests |-> nreq - wcall.nreq0, ret |-> Absent,
                 exc |-> "Exception", kept |-> FALSE]
    /\ UNCHANGED nwraps
    /\ UNCHANGED <<cacheVars, clientVars>>
    /\ UNCHANGED <<now, limiterVars, seqVars, taskVars, breakerVars,
                   cbObsVars>>

\* the start of a specification that uses neither the cache nor the client
ExtInit ==
    /\ ViewInit
    /\ ScenInit
    /\ CacheInit /\ ~redis_client
    /\ ClientInit /\ mock_mode
    /\ AwaitInit
    /\ ProbeInit
    /\ WrapInit

----------------------------------------------------------------------------
(* Specifications *)

\* one caller of the rate limiter
InitLimiter ==
    /\ now = 0
    /\ LimiterInit(Rates, DayLimits)
    /\ SeqInit
    /\ TaskInit
    /\ BreakerInit({5}, {60})
    /\ ObsInit
    /\ ExtInit

NextLimiter ==
    \/ Acquire /\ UNCHANGED extVars
    \/ TickLimiter /\ UNCHANGED extVars

SpecLimiter == InitLimiter /\ [][NextLimiter]_vars

\* several tasks sharing the rate limiter
InitTasks ==
    /\ now = 0
    /\ LimiterInit(TaskRates, TaskDayLimits)
    /\ SeqInit
    /\ TaskInit
    /\ BreakerInit({5}, {60})
    /\ ObsInit
    /\ ExtInit

NextTasks ==
    \/ \E i \in Tasks :
          \/ Call(i) /\ UNCHANGED extVars
          \/ Lock(i) /\ UNCHANGED extVars
          \/ RefillStep(i) /\ UNCHANGED extVars
          \/ ResetStep(i) /\ UNCHANGED extVars
          \/ DailyCheck(i) /\ UNCHANGED extVars
          \/ TokenCheck(i) /\ UNCHANGED extVars
          \/ Consume(i) /\ UNCHANGED extVars
    \/ TickTasks /\ UNCHANGED extVars

SpecTasks == InitTasks /\ [][NextTasks]_vars

\* the circuit breaker
InitBreaker ==
    /\ now = 0
    /\ LimiterInit({9}, {8000})
    /\ SeqInit
    /\ TaskInit
    /\ BreakerInit(Thresholds, Timeouts)
    /\ ObsInit
    /\ ExtInit

NextBreaker ==
    \/ AllowRequest /\ UNCHANGED extVars
    \/ RecordSuccess /\ UNCHANGED extVars
    \/ RecordFailure /\ UNCHANGED extVars
    \/ TickBreaker /\ UNCHANGED extVars

SpecBreaker == InitBreaker /\ [][NextBreaker]_vars

\* the circuit breaker with time that keeps advancing and callers that keep
\* asking
NextBreakerLive ==
    \/ AllowRequest /\ UNCHANGED extVars
    \/ RecordSuccess /\ UNCHANGED extVars
    \/ RecordFailureInTime /\ UNCHANGED extVars
    \/ TickBreaker /\ UNCHANGED extVars

SpecBreakerLive ==
    /\ InitBreaker
    /\ [][NextBreakerLive]_vars
    /\ WF_vars(AllowRequest /\ UNCHANGED extVars)
    /\ WF_vars(TickBreaker /\ UNCHANGED extVars)

\* limiter and breaker with the health collaborators reading them; here the
\* clock counts limiter ticks and timeout is held in ticks
InitViews ==
    /\ now = 0
    /\ LimiterInit({10}, {2})
    /\ SeqInit
    /\ TaskInit
    /\ BreakerInit({2}, {2})
    /\ ObsInit
    /\ ExtInit

NextViews ==
    \/ Acquire /\ UNCHANGED extVars
    \/ GetStats
    \/ AllowRequest /\ UNCHANGED extVars
    \/ RecordSuccess /\ UNCHANGED extVars
    \/ RecordFailure /\ UNCHANGED extVars
    \/ GetState
    \/ TickViews /\ UNCHANGED extVars

SpecViews == InitViews /\ [][NextViews]_vars

\* a scenario of counted acquire() calls on a fresh limiter with
\* max_per_second = 1
InitScenario ==
    /\ now = 0
    /\ LimiterInit({OneToken}, DayLimits)
    /\ SeqInit
    /\ TaskInit
    /\ BreakerInit({5}, {60})
    /\ ObsInit
    /\ ExtInit

NextScenario ==
    \/ AcquireCounted
    \/ TickLimiter /\ UNCHANGED extVars

SpecScenario == InitScenario /\ [][NextScenario]_vars

\* the cache manager, one operation after another, with a Redis server that
\* may fail and whose data may be damaged
InitCache ==
    /\ now = 0
    /\ LimiterInit({OneToken}, {2})
    /\ SeqInit
    /\ TaskInit
    /\ BreakerInit({1}, {2})
    /\ ObsInit
    /\ ViewInit
    /\ ScenInit
    /\ CacheInit
    /\ ClientInit /\ mock_mode
    /\ AwaitInit
    /\ ProbeInit
    /\ WrapInit

NextCache ==
    \/ nops < MaxCacheOps /\ (\E k \in Keys, ns \in Namespaces :
           CacheGet(k, ns)) /\ UNCHANGED otherThanCache
    \/ nops < MaxCacheOps /\ (\E k \in Keys, v \in Values, ns \in Namespaces,
           T \in SetTTLs : CacheSet(k, v, ns, T)) /\ UNCHANGED otherThanCache
    \/ nops < MaxCacheOps /\ (\E k \in Keys, ns \in Namespaces :
           CacheDelete(k, ns)) /\ UNCHANGED otherThanCache
    \/ nops < MaxCacheOps /\ (\E ns \in Namespaces :
           ClearNamespace(ns)) /\ UNCHANGED otherThanCache
    \/ TickCache /\ UNCHANGED otherThanCache
    \/ nops < MaxCacheOps /\ ToggleRedis /\ UNCHANGED otherThanCache
    \/ nops < MaxCacheOps /\ (\E ck \in CacheKeys, text \in MalformedTexts :
           Corrupt(ck, text)) /\ UNCHANGED otherThanCache

SpecCache == InitCache /\ [][NextCache]_vars

\* requests going through the client while the health check uses a cache
\* whose Redis server does not answer; the clock counts limiter ticks and
\* timeout is held in ticks
InitClient ==
    /\ now = 0
    /\ LimiterInit({OneToken}, {2})
    /\ SeqInit
    /\ TaskInit
    /\ BreakerInit({1, 2}, {2})
    /\ ObsInit
    /\ ViewInit
    /\ ScenInit
    /\ CacheInit /\ redis_client /\ ~redis_up
    /\ ClientInit
    /\ AwaitInit
    /\ ProbeInit
    /\ WrapInit

NextClient ==
    \/ \E r \in Requests : Begin(r) /\ UNCHANGED otherThanClient
    \/ \E r \in Requests : AskBreaker(r) /\ UNCHANGED otherThanClient
    \/ \E r \in Requests : CallReturns(r) /\ UNCHANGED otherThanClient
    \/ \E r \in Requests : CallRaises(r) /\ UNCHANGED otherThanClient
    \/ \E r \in Requests : ParseReturns(r) /\ UNCHANGED otherThanClient
    \/ \E r \in Requests : ParseRaises(r) /\ UNCHANGED otherThanClient
    \/ \E r \in Requests : Except(r) /\ UNCHANGED otherThanClient
    \/ TickClient /\ UNCHANGED otherThanClient
    \/ nops < MaxClientCacheOps /\ running = 0
           /\ CacheGet("k1", <<"a">>) /\ UNCHANGED otherThanCache
    \/ nops < MaxClientCacheOps /\ running = 0
           /\ CacheDelete("k1", <<"a">>) /\ UNCHANGED otherThanCache
    \/ nops < MaxClientCacheOps /\ running = 0
           /\ ClearNamespace(<<"a">>) /\ UNCHANGED otherThanCache

SpecClient == InitClient /\ [][NextClient]_vars

\* one key of one namespace on a cache with a Redis server that goes down and
\* comes back, every operation running from start to return
NextOutage ==
    \/ nops < MaxOutageOps /\ CacheGet("k1", <<"a">>)
           /\ UNCHANGED otherThanCache
    \/ nops < MaxOutageOps /\ (\E v \in OutageValues, T \in SetTTLs :
           SetNoted("k1", v, <<"a">>, T)) /\ UNCHANGED otherThanAwait
    \/ nops < MaxOutageOps /\ CacheDelete("k1", <<"a">>)
           /\ UNCHANGED otherThanCache
    \/ nops < MaxOutageOps /\ ToggleRedis /\ UNCHANGED otherThanCache
    \/ TickOutage /\ UNCHANGED otherThanCache

\* the same, the get also suspended at its await
InitAwait ==
    /\ now = 0
    /\ LimiterInit({OneToken}, {2})
    /\ SeqInit
    /\ TaskInit
    /\ BreakerInit({1}, {2})
    /\ ObsInit
    /\ ViewInit
    /\ ScenInit
    /\ CacheInit /\ redis_client
    /\ ClientInit /\ mock_mode
    /\ AwaitInit
    /\ ProbeInit
    /\ WrapInit

NextAwait ==
    \/ nops < MaxOutageOps /\ CacheGet("k1", <<"a">>)
           /\ UNCHANGED otherThanCache
    \/ nops < MaxOutageOps /\ (\E v \in OutageValues, T \in SetTTLs :
           SetNoted("k1", v, <<"a">>, T)) /\ UNCHANGED otherThanAwait
    \/ nops < MaxOutageOps /\ CacheDelete("k1", <<"a">>)
           /\ UNCHANGED otherThanCache
    \/ nops < MaxOutageOps /\ GetAwait("k1", <<"a">>)
           /\ UNCHANGED otherThanAwait
    \/ GetResume /\ UNCHANGED otherThanAwait
    \/ nops < MaxOutageOps /\ ToggleRedis /\ UNCHANGED otherThanCache
    \/ TickCache /\ UNCHANGED otherThanCache

SpecAwait == InitAwait /\ [][NextAwait]_vars

SpecOutage == InitAwait /\ [][NextOutage]_vars

\* requests that overlap a trip of the breaker and its recovery: a limiter
\* with tokens to spare, a timeout of one tick, no cache
InitProbe ==
    /\ now = 0
    /\ LimiterInit(ProbeRates, ProbeDayLimits)
    /\ SeqInit
    /\ TaskInit
    /\ BreakerInit({1, 2}, {1})
    /\ ObsInit
    /\ ViewInit
    /\ ScenInit
    /\ CacheInit /\ ~redis_client
    /\ ClientInit /\ ~mock_mode
    /\ AwaitInit
    /\ ProbeInit
    /\ WrapInit

NextProbe ==
    \/ \E r \in Requests : Begin(r) /\ UNCHANGED otherThanClient
    \/ \E r \in Requests : AskBreakerNoted(r) /\ UNCHANGED otherThanProbe
    \/ \E r \in Requests : CallReturns(r) /\ UNCHANGED otherThanClient
    \/ \E r \in Requests : CallRaises(r) /\ UNCHANGED otherThanClient
    \/ \E r \in Requests : ParseReturns(r) /\ UNCHANGED otherThanClient
    \/ \E r \in Requests : ParseRaises(r) /\ UNCHANGED otherThanClient
    \/ \E r \in Requests : Except(r) /\ UNCHANGED otherThanClient
    \/ TickClient /\ UNCHANGED otherThanClient

SpecProbe == InitProbe /\ [][NextProbe]_vars

\* calls of decorated functions, one after another, on a cache with or
\* without a Redis server that answers; the function's body is a request
\* through the client
InitWrap ==
    /\ now = 0
    /\ LimiterInit(ProbeRates, ProbeDayLimits)
    /\ SeqInit
    /\ TaskInit
    /\ BreakerInit({1, 2}, {1})
    /\ ObsInit
    /\ ViewInit
    /\ ScenInit
    /\ CacheInit /\ redis_up = redis_client
    /\ ClientInit
    /\ AwaitInit
    /\ ProbeInit
    /\ WrapInit

NextWrap ==
    \/ \E f \in Wrapped : WrapperCall(f) /\ UNCHANGED otherThanWrap
    \/ FuncBegin /\ UNCHANGED otherThanWrap
    \/ AskBreaker(Body) /\ UNCHANGED otherThanClient
    \/ CallReturns(Body) /\ UNCHANGED otherThanClient
    \/ CallRaises(Body) /\ UNCHANGED otherThanClient
    \/ ParseReturns(Body) /\ UNCHANGED otherThanClient
    \/ ParseRaises(Body) /\ UNCHANGED otherThanClient
    \/ Except(Body) /\ UNCHANGED otherThanClient
    \/ \E v \in WrapResults : FuncReturns(v) /\ UNCHANGED otherThanWrap
    \/ FuncRaises /\ UNCHANGED otherThanWrap
    \/ TickClient /\ UNCHANGED otherThanClient

SpecWrap == InitWrap /\ [][NextWrap]_vars

----------------------------------------------------------------------------
(* Properties of the rate limiter, checked under SpecLimiter *)

\* one second, in ticks
OneSecond == TicksPerSecond

\* C1: in every span of less than one second at most N = max_per_second
\* acquire() calls return true (the number of grants, in tenths of a token,
\* never exceeds max_per_second).
C1_AtMostNPerSecond ==
    \A i \in DOMAIN grants : \A j \in DOMAIN grants :
        (i <= j /\ grants[j] - grants[i] < OneSecond)
            => (j - i + 1) * OneToken <= max_per_second

\* C2 as stated: in every span of less than 24 hours, also one that contains
\* a daily-counter reset, at most max_per_day acquire() calls return true.
C2_AtMostDailyInAnySpan ==
    \A i \in DOMAIN grants : \A j \in DOMAIN grants :
        (i <= j /\ grants[j] - grants[i] < Day) => (j - i + 1) <= max_per_day

\* the grants of the current daily window, which began at daily_reset - 24h
WindowGrants == {i \in DOMAIN grants : grants[i] >= daily_reset - Day}

\* C2 amended: within one daily window (from construction or a reset of the
\* daily counter up to the next reset) at most max_per_day acquire() calls
\* return true, whatever the token availability.
C2_AtMostDailyPerWindow == Cardinality(WindowGrants) <= max_per_day

\* a call after a reset is rejected by the daily cap although a token is there
C2_Witness ==
    /\ called /\ ~result
    /\ daily_reset > Day
    /\ Cardinality(WindowGrants) = max_per_day
    /\ tokens >= OneToken

\* C3: on a fresh limiter, calls spaced exactly 1/N seconds apart all return
\* true as long as daily budget remains.
C3_PacedCallsAdmitted ==
    (called /\ paced /\ daily_requests < max_per_day) => result

\* C4: 0 <= tokens <= max_per_second and 0 <= daily_requests <= max_per_day
\* in every reachable state.
C4_Bounds ==
    /\ 0 <= tokens /\ tokens <= max_per_second
    /\ 0 <= daily_requests /\ daily_requests <= max_per_day

\* both caps bind: a full bucket and an exhausted daily budget
C4_Witness ==
    /\ called /\ ~result
    /\ tokens = max_per_second
    /\ daily_requests = max_per_day
    /\ pre.tokens < max_per_second

\* C5 as stated: a call that returns false leaves tokens and daily_requests
\* as they were before the call.
C5_RejectionNoSideEffects ==
    (called /\ ~result) =>
        /\ tokens = pre.tokens
        /\ daily_requests = pre.daily_requests

\* C5 amended: a call that returns false consumes nothing, but it still
\* refills (tokens = min(max_per_second, tokens + elapsed * max_per_second),
\* last_refill = now) and, when now >= daily_reset, resets the daily window
\* (daily_requests = 0, daily_reset = now + 24h); otherwise daily_requests
\* and daily_reset are unchanged.
C5_RejectionConsumesNothing ==
    (called /\ ~result) =>
        LET t        == last_refill
            refilled == pre.tokens
                        + ((t - pre.last_refill) * max_per_second)
                          \div TicksPerSecond
        IN  /\ tokens = IF refilled > max_per_second
                           THEN max_per_second ELSE refilled
            /\ tokens >= pre.tokens
            /\ IF t >= pre.daily_reset
                  THEN daily_requests = 0 /\ daily_reset = t + Day
                  ELSE /\ daily_requests = pre.daily_requests
                       /\ daily_reset = pre.daily_reset

\* a token-shortage rejection after a partial refill
C5_Witness ==
    /\ called /\ ~result
    /\ pre.tokens < tokens /\ tokens < OneToken
    /\ daily_requests < max_per_day

\* C24: a call of acquire() at a time t >= daily_reset starts a new daily
\* window before its daily check: daily_reset becomes t + 24h (measured from
\* the call, not from the old reset time), the count restarts from 0, and the
\* call is admitted exactly when the refilled bucket holds a token, also when
\* the old window's budget was exhausted.
C24_ResetBeforeDailyCheck ==
    (called /\ last_refill >= pre.daily_reset) =>
        LET t        == last_refill
            refilled == pre.tokens
                        + ((t - pre.last_refill) * max_per_second)
                          \div TicksPerSecond
            capped   == IF refilled > max_per_second
                           THEN max_per_second ELSE refilled
        IN  /\ daily_reset = t + Day
            /\ result <=> (capped >= OneToken)
            /\ daily_requests = (IF result THEN 1 ELSE 0)

\* an exhausted limiter admits the first call made after its window ended,
\* some time after the old reset time
C24_Witness ==
    /\ called /\ result
    /\ pre.daily_requests = max_per_day
    /\ last_refill > pre.daily_reset
    /\ daily_reset = last_refill + Day
    /\ daily_requests = 1

----------------------------------------------------------------------------
(* Properties of concurrent acquire() calls, checked under SpecTasks *)

InBody(i) == pc[i] \in {"refill", "reset", "daily", "tokens", "consume"}

\* task i returns in this step
Returns(i) == pc[i] # "done" /\ pc'[i] = "done"

\* C6: the bodies of concurrent acquire() calls never overlap, every call
\* returns what a call running alone from the fields it found would return
\* and leaves the fields such a call would leave, tokens never goes below 0
\* and daily_requests never above max_per_day.
C6_Serialized ==
    /\ [](/\ (\A i \in Tasks : \A j \in Tasks :
                (InBody(i) /\ InBody(j)) => i = j)
           /\ (\A k \in Tasks : InBody(k) => lock = k)
           /\ tokens >= 0
           /\ daily_requests <= max_per_day)
    /\ [][\A i \in Tasks : Returns(i) =>
            LET out == AcquireOutcome(snap[i], tnow[i]) IN
            /\ tret'[i] = out.ret
            /\ tokens' = out.tokens
            /\ last_refill' = out.last_refill
            /\ daily_requests' = out.daily_requests
            /\ daily_reset' = out.daily_reset]_vars

\* two callers competed for the last token: one got it, the other was
\* rejected for token shortage
C6_Witness ==
    \E i \in Tasks : \E j \in Tasks :
        /\ pc[i] = "done" /\ tret[i]
        /\ pc[j] = "done" /\ ~tret[j]
        /\ tnow[i] = tnow[j]
        /\ tokens < OneToken
        /\ daily_requests < max_per_day

----------------------------------------------------------------------------
(* Properties of the circuit breaker, checked under SpecBreaker *)

\* C7: counted from Closed with failure_count 0, the breaker is Closed and
\* allow_request() returns true while fewer than failure_threshold
\* record_failure() calls were made, and it is Open right after the
\* failure_threshold-th.
C7_OpensAtThreshold ==
    /\ failures_reported < failure_threshold =>
          /\ state = CLOSED
          /\ op = "allow_request" => allowed
    /\ (op = "record_failure" /\ failures_reported = failure_threshold) =>
          state = OPEN

C7_Witness ==
    /\ op = "record_failure"
    /\ failure_threshold = 3
    /\ failures_reported = failure_threshold
    /\ prev.state = CLOSED
    /\ state = OPEN

\* C8: allow_request() on an Open breaker returns false and leaves it Open
\* while less than timeout seconds have passed since last_failure_time, and
\* returns true and makes it HalfOpen once timeout seconds have passed.
C8_OpenUntilTimeout ==
    (op = "allow_request" /\ prev.state = OPEN) =>
        IF prev.now - prev.last_failure_time >= timeout
          THEN allowed /\ state = HALF_OPEN
          ELSE ~allowed /\ state = OPEN

\* the probe admitted exactly when the timeout has elapsed
C8_Witness ==
    /\ op = "allow_request" /\ prev.state = OPEN
    /\ failure_threshold = 2
    /\ prev.now - prev.last_failure_time = timeout
    /\ allowed /\ state = HALF_OPEN

\* C9: in HalfOpen, record_success() closes the breaker and sets
\* failure_count to 0; record_failure() opens it again, sets
\* last_failure_time to now and increments failure_count without resetting.
C9_HalfOpenOutcomes ==
    /\ (op = "record_success" /\ prev.state = HALF_OPEN) =>
          state = CLOSED /\ failure_count = 0
    /\ (op = "record_failure" /\ prev.state = HALF_OPEN) =>
          /\ state = OPEN
          /\ last_failure_time = prev.now
          /\ failure_count = prev.failure_count + 1

C9_Witness ==
    /\ op = "record_failure" /\ prev.state = HALF_OPEN
    /\ state = OPEN
    /\ failure_count > failure_threshold

\* C10: the state changes only Closed->Open by a record_failure() that
\* brings failure_count to failure_threshold or more, Open->HalfOpen by an
\* allow_request() after the timeout, HalfOpen->Open by record_failure() and
\* HalfOpen->Closed by record_success(), which sets failure_count to 0.
C10_OnlyTransitions ==
    [][state' # state =>
        \/ /\ state = CLOSED /\ state' = OPEN
           /\ op' = "record_failure"
           /\ failure_count' = failure_count + 1
           /\ failure_count' >= failure_threshold
        \/ /\ state = OPEN /\ state' = HALF_OPEN
           /\ op' = "allow_request" /\ allowed'
           /\ now - last_failure_time >= timeout
        \/ /\ state = HALF_OPEN /\ state' = OPEN
           /\ op' = "record_failure"
        \/ /\ state = HALF_OPEN /\ state' = CLOSED
           /\ op' = "record_success"
           /\ failure_count' = 0]_vars

\* the breaker has gone round: Closed, Open, HalfOpen, Closed again
C10_Witness ==
    /\ op = "record_success"
    /\ prev.state = HALF_OPEN /\ prev.failure_count >= failure_threshold
    /\ state = CLOSED /\ failure_count = 0

\* C22: the breaker opens only after failure_threshold consecutive
\* failures: a record_failure() that comes right after a record_success()
\* reported while Closed is the first of its run, so with a threshold of 2
\* or more it leaves the breaker Closed.
C22_OnlyConsecutiveFailuresOpen ==
    [][(op = "record_success" /\ state = CLOSED /\ op' = "record_failure"
          /\ failure_threshold >= 2)
       => state' = CLOSED]_vars

C25_HalfOpenAdmitsAll ==
    (op = "allow_request" /\ prev.state = HALF_OPEN) =>
        /\ allowed
        /\ state = HALF_OPEN
        /\ failure_count = prev.failure_count
        /\ last_failure_time = prev.last_failure_time

\* a second caller is admitted while the first probe has not reported
C25_Witness ==
    /\ op = "allow_request" /\ prev.state = HALF_OPEN
    /\ allowed /\ state = HALF_OPEN
    /\ failure_count = failure_threshold

\* C37: with failure_threshold >= 1, a Closed breaker has
\* failure_count < failure_threshold; an Open or HalfOpen breaker has
\* failure_count >= failure_threshold and a last_failure_time that is set.
C37_StateMatchesCount ==
    failure_threshold >= 1 =>
        /\ state = CLOSED => failure_count < failure_threshold
        /\ state \in {OPEN, HALF_OPEN} =>
              /\ failure_count >= failure_threshold
              /\ last_failure_time # None

\* a breaker that opened, recovered through HalfOpen and closed counts the
\* next failure from 0 and stays Closed below the threshold
C37_Witness ==
    /\ op = "record_failure"
    /\ prev.state = CLOSED /\ prev.failure_count = 0
    /\ prev.last_failure_time # None
    /\ state = CLOSED /\ failure_count = 1 /\ failure_threshold = 2

\* C38: record_failure() on an Open breaker keeps it Open, adds 1 to
\* failure_count and sets last_failure_time to now; last_failure_time is at
\* all times the time of the most recent record_failure(), and
\* allow_request() on an Open breaker returns false while less than timeout
\* has passed since then.
C38_FailureWhileOpenRestartsTimeout ==
    /\ []((op = "record_failure" /\ prev.state = OPEN) =>
            /\ state = OPEN
            /\ failure_count = prev.failure_count + 1
            /\ last_failure_time = prev.now)
    /\ [][IF op' = "record_failure" /\ prev' = BreakerFields
            THEN last_failure_time' = now
            ELSE last_failure_time' = last_failure_time]_vars
    /\ []((op = "allow_request" /\ prev.state = OPEN
             /\ prev.now - prev.last_failure_time < timeout) =>
            (~allowed /\ state = OPEN))

\* a failure reported to an Open breaker whose timeout had already passed
\* since the failure before it: the wait starts again from this report
C38_Witness ==
    /\ op = "record_failure" /\ prev.state = OPEN /\ state = OPEN
    /\ prev.now - prev.last_failure_time >= timeout
    /\ last_failure_time = now
    /\ failure_count > failure_threshold

----------------------------------------------------------------------------
(* Liveness of the circuit breaker, checked under SpecBreakerLive *)

\* C11: the breaker has no terminal state: an Open breaker always has
\* last_failure_time set, and when time keeps advancing and the failures
\* stop, allow_request() returns true again and again.
C11_NoTerminalState ==
    /\ [](state = OPEN => last_failure_time # None)
    /\ [](state = OPEN => <>(op = "allow_request" /\ allowed))
    /\ []<>(op = "allow_request" /\ allowed)

\* a breaker that was re-opened from HalfOpen admits a probe again
C11_Witness ==
    /\ op = "allow_request" /\ allowed
    /\ prev.state = OPEN /\ state = HALF_OPEN
    /\ prev.failure_count > failure_threshold

----------------------------------------------------------------------------
(* Read-only snapshots, checked under SpecViews *)

\* C19: get_stats() and get_state() change no state: the limiter's tokens,
\* last_refill, daily_requests, daily_reset and the breaker's state,
\* failure_count, last_failure_time are the same after the call as before.
C19_SnapshotsReadOnly ==
    [][(GetStats \/ GetState) =>
        UNCHANGED <<tokens, last_refill, daily_requests, daily_reset,
                    state, failure_count, last_failure_time>>]_vars

\* both snapshots were taken of a limiter and a breaker that have been used
C19_Witness ==
    /\ stats.tokens_available = tokens /\ stats.daily_requests_used > 0
    /\ stats.tokens_available < max_per_second
    /\ view.state = OPEN /\ state = OPEN
    /\ view.failure_count = failure_count

----------------------------------------------------------------------------
(* Scenario of spec section 8, checked under SpecScenario *)

\* C20: on a fresh RateLimiter(max_per_second=1, max_per_day=D), calls with
\* no time between them return true for the first call only; calls at least
\* one second apart return true for exactly the first D calls and false
\* afterwards, until the daily reset.
C20_Scenario ==
    (max_per_second = OneToken /\ called) =>
        /\ rapid => (result <=> ncalls = 1)
        /\ (spaced /\ daily_reset = Day) => (result <=> ncalls <= max_per_day)

\* max_per_day = 3: the fourth call, spaced like the others, is rejected
C20_Witness ==
    /\ max_per_second = OneToken /\ max_per_day = 3
    /\ spaced /\ ncalls = 4 /\ ~result
    /\ daily_reset = Day

----------------------------------------------------------------------------
(* Properties of the PA API client, checked under SpecClient *)

\* how often a request has done something
Count(log, what) == Cardinality({i \in DOMAIN log : log[i] = what})

\* the request has made the outbound call
Attempted(r) == Count(rlog[r], "call") > 0

\* C12: every request that passed both gates and attempted the outbound call
\* has called exactly one of record_success() and record_failure() when it
\* leaves the method, also when parsing the response raised after the call
\* returned.
C12_ExactlyOneReport ==
    \A r \in Requests :
        (rpc[r] \in Terminal /\ Attempted(r))
        => Count(rlog[r], "record_success")
             + Count(rlog[r], "record_failure") = 1

\* C13: a request asks the breaker only after acquire() returned true and
\* makes the outbound call only after allow_request() returned true after
\* that; a request whose acquire() returned false is rejected without the
\* breaker being asked, and one whose allow_request() returned false makes
\* no call.
C13_GatesInOrder ==
    \A r \in Requests :
        /\ \A i \in DOMAIN rlog[r] :
              /\ rlog[r][i] \in {"acquire:true", "acquire:false"} => i = 1
              /\ rlog[r][i] \in {"allow:true", "allow:false"}
                 => (i = 2 /\ rlog[r][1] = "acquire:true")
              /\ rlog[r][i] = "call"
                 => (i = 3 /\ rlog[r][1] = "acquire:true"
                       /\ rlog[r][2] = "allow:true")
        /\ rpc[r] = "rate_limited" => rlog[r] = <<"acquire:false">>
        /\ rpc[r] = "circuit_open"
           => rlog[r] = <<"acquire:true", "allow:false">>
        /\ rpc[r] = "calling" => rlog[r] = <<"acquire:true", "allow:true">>

\* one request made the call and another, admitted by the limiter, was
\* turned away by the breaker
C13_Witness ==
    \E r, q \in Requests :
        /\ rpc[r] = "circuit_open"
        /\ Len(rlog[q]) >= 3 /\ rlog[q][3] = "call"

\* this step is a request reporting the outcome of a call it made
ReportStep ==
    \E r \in Requests :
        /\ Len(rlog'[r]) > Len(rlog[r])
        /\ rlog'[r][Len(rlog'[r])] \in {"record_success", "record_failure"}
        /\ Count(rlog'[r], "call") > 0

\* this step is a rate-limit rejection, a circuit-open rejection or a cache
\* operation
AbsorbedStep ==
    \/ nreq' # nreq /\ ~result'
    \/ \E r \in Requests : rpc[r] = "acquired" /\ rpc'[r] # "calling"
                              /\ rpc'[r] # "mock_returned"
    \/ nops' # nops

FailureReported(r) == rpc[r] = "raised" /\ rpc'[r] = "failed"

\* C26: no update of failure_count is lost when requests overlap: every
\* record_failure() a request reports adds exactly 1 to failure_count
\* whatever the other requests did since it was admitted, a step that reports
\* nothing adds nothing, the count equals the number of failures reported
\* since the breaker last closed, and the breaker is not Closed once the count
\* has reached failure_threshold.
C26_NoLostFailureUpdate ==
    /\ [][\A r \in Requests : FailureReported(r) =>
             /\ failure_count' = failure_count + 1
             /\ failure_count' >= failure_threshold => state' = OPEN]_vars
    /\ [][(\A r \in Requests : ~FailureReported(r)) =>
             failure_count' = failure_count \/ failure_count' = 0]_vars
    /\ [](failure_count = failures_reported)
    /\ [](state = CLOSED => failure_count < failure_threshold)

\* two requests awaited the outbound call at the same time, both calls
\* raised and both reported: the count is 2 and the second report opened
\* the breaker
C26_Witness ==
    /\ overlapped /\ nreq = NumRequests
    /\ \A r \in Requests : rpc[r] = "failed"
    /\ failure_threshold = 2
    /\ failure_count = 2 /\ state = OPEN
    /\ prev.state = CLOSED

\* request r is turned away by the breaker in this step
CircuitRejects(r) == rpc[r] = "acquired" /\ rpc'[r] = "circuit_open"

\* C36: a request rejected by an Open circuit has already been granted by
\* acquire(): when the breaker turns it away, the limiter holds one token
\* less than the refill gave and daily_requests is one more than before the
\* request's acquire(), and the rejection gives nothing back.
C36_RejectedRequestsSpendBudget ==
    [][\A r \in Requests : CircuitRejects(r) =>
          LET refilled == pre.tokens
                          + ((last_refill - pre.last_refill) * max_per_second)
                            \div TicksPerSecond
              capped   == IF refilled > max_per_second
                             THEN max_per_second ELSE refilled
              counted  == IF last_refill >= pre.daily_reset
                             THEN 0 ELSE pre.daily_requests
          IN  /\ result
              /\ tokens = capped - OneToken
              /\ daily_requests = counted + 1
              /\ tokens' = tokens
              /\ daily_requests' = daily_requests]_vars

\* the request that the Open circuit turned away took the last unit of the
\* daily budget
C36_Witness ==
    \E r \in Requests :
        /\ rpc[r] = "circuit_open"
        /\ rlog[r] = <<"acquire:true", "allow:false">>
        /\ op = "allow_request" /\ ~allowed /\ state = OPEN
        /\ daily_requests = max_per_day
        /\ daily_requests = pre.daily_requests + 1

----------------------------------------------------------------------------
(* A success that arrives late, checked under SpecProbe *)

\* request r reports a success in this step
SuccessReported(r) == rpc[r] = "calling" /\ rpc'[r] = "parsing"

\* C39: a record_success() reported while the breaker is HalfOpen closes it
\* and sets failure_count to 0 whichever request reports it, also a request
\* admitted before the breaker tripped while the probe has not reported; a
\* failure the probe then reports finds the breaker Closed with count 0 and
\* raises failure_count to 1 only.
C39_LateSuccessCloses ==
    /\ [][\A r \in Requests : (SuccessReported(r) /\ state = HALF_OPEN) =>
             (state' = CLOSED /\ failure_count' = 0)]_vars
    /\ [][\A r \in Requests :
             (FailureReported(r) /\ state = CLOSED /\ failure_count = 0) =>
             /\ failure_count' = 1
             /\ state' = (IF failure_threshold <= 1 THEN OPEN ELSE CLOSED)
          ]_vars

\* r was admitted while the breaker was Closed and has reported a success;
\* q, whose allow_request() moved the breaker from Open to HalfOpen, has
\* reported its failure to a Closed breaker with count 0
C39_Witness ==
    \E r \in Requests : \E q \in Requests \ {r} :
        /\ nreq = 3
        /\ admitted_in[r] = CLOSED
        /\ rpc[r] \in {"parsing", "returned"}
        /\ admitted_in[q] = OPEN
        /\ rpc[q] = "failed"
        /\ op = "record_failure"
        /\ prev.state = CLOSED /\ prev.failure_count = 0
        /\ failure_count = 1

----------------------------------------------------------------------------
(* Properties of the cache manager, checked under SpecCache *)

\* the composite key of the last cache operation
LastKey == generate_key(cop.key, cop.ns)

\* C15: set(k, v, ns) immediately followed by get(k, ns) returns v, with or
\* without a distributed tier; get(k, ns) of a key never set in either tier
\* returns None.
C15_RoundTrip ==
    /\ [][(cop.name = "set" /\ cop'.name = "get" /\ cop'.key = cop.key
             /\ cop'.ns = cop.ns)
          => (cop'.ret = cop.value /\ ~cop'.raised)]_vars
    /\ []((cop.name = "get" /\ kstat[LastKey] \in {"unset", "deleted_unset"})
          => (cop.ret = Absent /\ ~cop.raised))

\* the tuple comes back as the tuple, from the local tier, although the
\* server holds it as a JSON array: one set and one get, no time between
C15_Witness ==
    /\ cop.name = "get" /\ cop.ret = "tuple1"
    /\ nops = 2 /\ now = 0
    /\ redis_client /\ redis_up
    /\ redis_store[LastKey].text = "[1]"

\* the distributed tier has worked all along, or there is none
Steady == ~toggled /\ (redis_client => redis_up)

\* C16: with operations one after another and a distributed tier that works
\* throughout or is absent throughout, a get(k, ns) after delete(k, ns), with
\* no set of k in between, returns None whether or not k was set before; a
\* delete of a key present in neither tier completes without error.
C16_DeleteThenGet ==
    /\ (Steady /\ cop.name = "get"
          /\ kstat[LastKey] \in {"deleted", "deleted_unset"})
       => (cop.ret = Absent /\ ~cop.raised)
    /\ (cop.name = "delete" /\ kstat[LastKey] = "deleted_unset")
       => ~cop.raised

\* a key that was set and then deleted is looked up on a working server
C16_Witness ==
    /\ cop.name = "get" /\ cop.ret = Absent
    /\ kstat[LastKey] = "deleted"
    /\ redis_client /\ redis_up /\ ~toggled

\* C17: no cache operation raises, whatever the distributed tier does; when
\* its distributed-tier call failed or returned malformed data, set has
\* stored the value in the local tier, get has returned None (the failed
\* lookup is a miss), delete has removed the local entry; while the tier is
\* unreachable get returns the local value or None.
C17_FaultsAbsorbed ==
    /\ ~cop.raised
    /\ (cop.exc # NoError /\ cop.name = "set")
       => (MemHas(memory_cache, LastKey, now)
             /\ MemValue(memory_cache, LastKey) = cop.value)
    /\ (cop.exc # NoError /\ cop.name = "get") => cop.ret = Absent
    /\ (cop.exc # NoError /\ cop.name = "delete")
       => ~MemHas(memory_cache, LastKey, now)
    /\ (redis_client /\ ~redis_up /\ cop.name = "get")
       => cop.ret = (IF MemHas(memory_cache, LastKey, now)
                     THEN MemValue(memory_cache, LastKey) ELSE Absent)

\* a lookup that found broken JSON on the server ended as a miss
C17_Witness ==
    /\ cop.name = "get" /\ cop.exc = "JSONDecodeError"
    /\ ~cop.raised /\ cop.ret = Absent
    /\ redis_store[LastKey].text = "{"

\* C18: a clear_namespace(ns) made right after a clear_namespace(ns) changes
\* neither tier, and clear_namespace on a namespace without entries changes
\* nothing and raises nothing.
C18_ClearIdempotent ==
    /\ [][(cop.name = "clear_namespace" /\ cop'.name = "clear_namespace"
             /\ cop'.ns = cop.ns)
          => (UNCHANGED <<memory_cache, redis_store>> /\ ~cop'.raised)]_vars
    /\ [][(cop'.name = "clear_namespace"
             /\ RedisKeys(redis_store, cop'.ns, now) = {})
          => (UNCHANGED <<memory_cache, redis_store>> /\ ~cop'.raised)]_vars

\* the second of two clear_namespace("a") calls, the first of which removed
\* an entry from the server while the local tier kept it
C18_Witness ==
    /\ cop.name = "clear_namespace" /\ cop.again /\ cop.ns = <<"a">>
    /\ redis_client /\ redis_up /\ ~toggled
    /\ kstat[generate_key("k1", <<"a">>)] = "set"
    /\ redis_store[generate_key("k1", <<"a">>)] = NoValue
    /\ MemHas(memory_cache, generate_key("k1", <<"a">>), now)

\* the step is a get of composite key ck
GetOf(ck) == cop'.name = "get" /\ nops' = nops + 1 /\ LastKey' = ck

\* C30: a get(k, ns) whose composite key is in the local tier (stored and
\* not expired) returns the local value, makes no call on the distributed
\* tier and changes neither tier, whether the server is reachable or not
\* and whatever it holds under the key.
C30_LocalHitSkipsRedis ==
    [][\A ck \in CacheKeys : \A i \in DOMAIN memory_cache :
          (GetOf(ck) /\ memory_cache[i].key = ck
             /\ now < memory_cache[i].expires)
          => /\ cop'.ret = memory_cache[i].value
             /\ ~cop'.accessed
             /\ cop'.exc = NoError
             /\ UNCHANGED <<memory_cache, redis_store>>]_vars

\* a local hit returns the tuple that was set while the reachable server
\* holds a text that reads back as a list
C30_Witness ==
    /\ cop.name = "get" /\ cop.ret = "tuple1" /\ ~cop.accessed
    /\ redis_client /\ redis_up
    /\ Live(redis_store[LastKey], now)
    /\ Loads(redis_store[LastKey].text).value = "list1"


\* the step is a set, a delete or a clear_namespace made in namespace ns
WriteIn(ns) ==
    /\ nops' = nops + 1
    /\ cop'.name \in {"set", "delete", "clear_namespace"}
    /\ cop'.ns = ns

\* what a get of composite key ck would return from the two tiers mc, rs
WouldGet(mc, rs, ck) == GetOutcome(mc, rs, ck, now).ret

\* C21: namespaces partition the cache: while the local tier is below its
\* size bound, a set, delete or clear_namespace made in namespace ns1 leaves
\* what get(k, ns2) returns as it was, for every key k and every namespace
\* ns2 other than ns1, also when one name is a prefix of the other and
\* contains ':'.
C21_NamespacesPartition ==
    [][\A ns1 \in Namespaces : \A ns2 \in Namespaces \ {ns1} :
       \A k \in Keys :
          (WriteIn(ns1) /\ Len(MemExpire(memory_cache, now)) < maxsize)
          => WouldGet(memory_cache', redis_store', generate_key(k, ns2))
               = WouldGet(memory_cache, redis_store, generate_key(k, ns2))
      ]_vars


\* the local tier holds a visible entry for composite key ck
LocalEntry(mc, ck, t) ==
    {i \in DOMAIN mc : mc[i].key = ck /\ t < mc[i].expires}

\* the server answers and holds readable text under composite key ck
ServerHit(ck) ==
    /\ redis_client /\ redis_up
    /\ now < redis_store[ck].expires
    /\ redis_store[ck].text \notin MalformedTexts

\* C31: a get(k, ns) that misses the local tier and finds a value on the
\* server returns the value read from its text and leaves it in the local
\* tier under the same composite key with the tier's lifetime; when the
\* server has nothing under the key or does not answer, the get returns None
\* and the local tier is as it was.  The get that follows a get answered by
\* the server is answered by the local tier, without a call on the server.
C31_WriteThroughOnRead ==
    /\ [][\A ck \in CacheKeys :
             (GetOf(ck) /\ LocalEntry(memory_cache, ck, now) = {}) =>
                IF ServerHit(ck)
                THEN /\ cop'.ret = Loads(redis_store[ck].text).value
                     /\ \E i \in LocalEntry(memory_cache', ck, now) :
                           /\ memory_cache'[i].value = cop'.ret
                           /\ memory_cache'[i].expires
                                = now + cache_ttl_search
                ELSE /\ cop'.ret = Absent
                     /\ memory_cache' = memory_cache]_vars
    /\ [][(cop.name = "get" /\ cop.accessed /\ cop.ret # Absent
             /\ GetOf(LastKey))
          => (cop'.ret = cop.ret /\ ~cop'.accessed)]_vars

\* a get found the list on the server after the local entry had expired
\* and has left it in the local tier with a fresh lifetime
C31_Witness ==
    /\ cop.name = "get" /\ cop.accessed /\ cop.ret = "list1"
    /\ now >= cache_ttl_search
    /\ \E i \in LocalEntry(memory_cache, LastKey, now) :
          /\ memory_cache[i].value = "list1"
          /\ memory_cache[i].expires = now + cache_ttl_search

\* the step is a clear_namespace of namespace ns
ClearOf(ns) ==
    cop'.name = "clear_namespace" /\ nops' = nops + 1 /\ cop'.ns = ns

\* the composite key starts with the namespace's name and a colon
StartsWith(ck, ns) ==
    /\ Len(ck) > Len(ns)
    /\ \A i \in 1..Len(ns) : ck[i] = ns[i]
    /\ ck[Len(ns) + 1] = ":"

SetOf(ck) == cop'.name = "set" /\ nops' = nops + 1 /\ LastKey' = ck

----------------------------------------------------------------------------
(* Properties of the cache across outages, checked under SpecOutage *)

\* C28: after set(k, v2, ns) has returned, a later get(k, ns) returns v2 or
\* None, never the value of an earlier set: every get returns the value last
\* written under its key or None, also when the distributed-tier write of
\* the last set failed and the local entry has expired since.
C28_NoOlderValue ==
    cop.name = "get" => cop.ret \in {written[LastKey], Absent}

\* C29: after delete(k, ns) has returned, a later get(k, ns) with no set in
\* between returns None, also when the distributed-tier removal of that
\* delete failed and the server is reachable again at the time of the get.
C29_DeletedStaysAbsent ==
    (cop.name = "get" /\ kstat[LastKey] \in {"deleted", "deleted_unset"})
        => cop.ret = Absent

\* the larger of two numbers
Max(a, b) == IF a >= b THEN a ELSE b

----------------------------------------------------------------------------
(* Properties of the cache with a suspended get, checked under SpecAwait *)

\* C27: on a distributed tier that has worked all along, a get(k, ns) that
\* starts after delete(k, ns) has completed, with no set in between, returns
\* None in every interleaving, also when another get(k, ns) that missed the
\* local tier was awaiting the server's reply while the delete ran.
C27_NoReinsertAfterDelete ==
    (cop.name = "get" /\ ~toggled /\ redis_up
       /\ kstat[LastKey] \in {"deleted", "deleted_unset"})
        => cop.ret = Absent


----------------------------------------------------------------------------
(* Properties of the @cached decorator, checked under SpecWrap *)

\* the last call of wrapper() has ended
Ended == wcall.pc = "idle" /\ wlast.func # "none"

\* C35: for a function wrapped with @cached, a call whose key is absent from
\* the cache runs the function once and stores its result under that key; a
\* call made while an entry for its arguments is live returns the stored
\* result without running the function, hence without a request to the
\* client (no acquire(), no allow_request(), no outbound call).
C35_MissRunsOnceHitRunsNothing ==
    Ended =>
        /\ ~wlast.had =>
               /\ wlast.runs = 1
               /\ (wlast.exc = NoError => wlast.kept)
        /\ wlast.had =>
               /\ wlast.hit
               /\ wlast.runs = 0
               /\ wlast.requests = 0

====
